---- MODULE Spec2Model ----
(***************************************************************************)
(* Model of the Windows file-event watcher of native-platform              *)
(* (src/main/cpp/win_fsnotifier.cpp): one Server with its run-loop thread, *)
(* its WatchPoints, the user APC queue of the run-loop thread, the         *)
(* overlapped directory reads and the Java callback (the sink).            *)
(*                                                                         *)
(* Two threads take steps: the caller thread (callerPc) and the run-loop   *)
(* thread (threadPc).  The environment changes the file system.            *)
(***************************************************************************)
EXTENDS Integers, Sequences, FiniteSets, TLC

(***************************************************************************)
(* Bounds of the model.                                                    *)
(***************************************************************************)
MaxWatchPoints == 2     \* WatchPoint objects allocated over one run
MaxChanges == 2         \* file system changes made by the environment
MaxCloseCalls == 2      \* stopWatching (close) calls made on one watcher
MaxRecords == 2         \* records in the buffer of one completion

WatchPointIds == 1..MaxWatchPoints

(***************************************************************************)
(* Windows constants used by the code.                                     *)
(***************************************************************************)
FILE_ACTION_ADDED == 1
FILE_ACTION_REMOVED == 2
FILE_ACTION_MODIFIED == 3
FILE_ACTION_RENAMED_OLD_NAME == 4
FILE_ACTION_RENAMED_NEW_NAME == 5
ERROR_SUCCESS == 0
ERROR_OPERATION_ABORTED == 995
SizeofWchar == 2

\* Action codes the OS can put in a record: the five documented ones and
\* two the code does not know.
ActionCodes == 0..6

(***************************************************************************)
(* Paths are sequences of tokens; "\\" is the separator.                   *)
(***************************************************************************)
Sep == "\\"
DirA == <<"C:", Sep, "a">>
DirB == <<"C:", Sep, "b">>
FilePath == <<"C:", Sep, "file.txt">>
MissingPath == <<"C:", Sep, "missing">>
Dirs == {DirA, DirB}
UserPaths == Dirs \cup {FilePath, MissingPath}

\* What CreateFileW / ReadDirectoryChangesW find at a path.
PathKind(p) == IF p \in Dirs THEN "dir" ELSE IF p = FilePath THEN "file" ELSE "missing"

\* File names, relative to the watched root, that a record can carry:
\* a direct child, a non-direct descendant, and the empty name.
\* The descendant is reported because listen asks for the subtree
\* (bWatchSubtree of ReadDirectoryChangesW).
WatchSubtree == TRUE

FileNames ==
    { <<"f">>, <<>> } \cup (IF WatchSubtree THEN { <<"sub", Sep, "g">> } ELSE {})

\* java.io.File.isAbsolute on Windows: a drive followed by a separator.
IsAbsolute(p) == Len(p) >= 2 /\ p[1] = "C:" /\ p[2] = Sep

(***************************************************************************)
(* State.                                                                  *)
(***************************************************************************)
VARIABLES
    callerPc,           \* where the caller thread is
    callerWp,           \* the WatchPoint the caller is registering (0: none)
    callResult,         \* what the last finished API call reported
    closeCalls,         \* number of stopWatching (close) JNI calls made
    serverMem,          \* the Server object: "none", "alive", "freed"
    sinkKind,           \* the callback the user passed
    sinkRef,            \* the global reference to the callback is valid
    threadPc,           \* where the run-loop thread is
    threadJoined,       \* watcherThread.join() has returned
    current,            \* the completion the run-loop thread is handling
    terminate,          \* Server::terminate
    watchPoints,        \* Server::watchPoints (std::list<WatchPoint*>)
    wp,                 \* the WatchPoint objects and their directory handles
    apcQueue,           \* user APCs queued to the run-loop thread
    sink,               \* calls made on the callback, in order
    pendingException,   \* a Java exception is pending on the run-loop thread
    crashed,            \* the process has faulted
    nChanges,           \* file system changes made so far
    unwatched           \* paths whose stopWatching has returned

vars == << callerPc, callerWp, callResult, closeCalls, serverMem, sinkKind,
           sinkRef, threadPc, threadJoined, current, terminate, watchPoints,
           wp, apcQueue, sink, pendingException, crashed, nChanges, unwatched >>

NoWatchPoint ==
    [ mem |-> "unborn", path |-> <<>>, status |-> "WATCH_UNINITIALIZED",
      handleOpen |-> FALSE, pending |-> 0, kbuf |-> <<>>, overflow |-> FALSE,
      closes |-> 0 ]

NoApc == [ kind |-> "none", wp |-> 0, errorCode |-> 0, bytes |-> 0,
           buffer |-> <<>>, path |-> <<>> ]

SinkKinds == { "recording", "throwing" }

Init ==
    /\ callerPc = "init"
    /\ callerWp = 0
    /\ callResult = "none"
    /\ closeCalls = 0
    /\ serverMem = "none"
    /\ sinkKind = "recording"
    /\ sinkRef = FALSE
    /\ threadPc = "notStarted"
    /\ threadJoined = FALSE
    /\ current = NoApc
    /\ terminate = FALSE
    /\ watchPoints = <<>>
    /\ wp = [ w \in WatchPointIds |-> NoWatchPoint ]
    /\ apcQueue = <<>>
    /\ sink = <<>>
    /\ pendingException = FALSE
    /\ crashed = FALSE
    /\ nChanges = 0
    /\ unwatched = {}

(***************************************************************************)
(* The handlers run on a record s of the parts of the state they touch;    *)
(* an action hands them World and installs the record they return.         *)
(***************************************************************************)
World ==
    [ wp |-> wp, apc |-> apcQueue, sink |-> sink, list |-> watchPoints,
      cpc |-> callerPc, cwp |-> callerWp, pend |-> pendingException,
      term |-> terminate, sinkKind |-> sinkKind ]

Install(s) ==
    /\ wp' = s.wp
    /\ apcQueue' = s.apc
    /\ sink' = s.sink
    /\ watchPoints' = s.list
    /\ callerPc' = s.cpc
    /\ pendingException' = s.pend
    /\ terminate' = s.term

(***************************************************************************)
(* The operating system: overlapped reads on a directory handle.           *)
(***************************************************************************)
Completion(w, errorCode, buffer) ==
    [ kind |-> "completion", wp |-> w, errorCode |-> errorCode,
      bytes |-> Len(buffer), buffer |-> buffer, path |-> <<>> ]

\* The records of one completion, chained by NextEntryOffset (0 ends it).
Chain(records) ==
    [ i \in 1..Len(records) |->
        [ records[i] EXCEPT !.NextEntryOffset = IF i < Len(records) THEN 1 ELSE 0 ] ]

\* ReadDirectoryChangesW(directoryHandle, buffer, ..., &handleEventCallback):
\* fails on a closed handle and on a handle that is not a directory; a
\* read that finds changes already buffered by the kernel completes at
\* once, and after a buffer overflow it completes with zero bytes.
ReadDirectoryChangesW(s, w) ==
    LET h == s.wp[w] IN
    IF ~h.handleOpen \/ PathKind(h.path) # "dir"
    THEN [ success |-> FALSE, s |-> s ]
    ELSE IF h.overflow
    THEN [ success |-> TRUE,
           s |-> [ s EXCEPT !.wp[w].overflow = FALSE, !.wp[w].kbuf = <<>>,
                            !.apc = Append(@, Completion(w, ERROR_SUCCESS, <<>>)) ] ]
    ELSE IF h.kbuf # <<>>
    THEN [ success |-> TRUE,
           s |-> [ s EXCEPT !.wp[w].kbuf = <<>>,
                            !.apc = Append(@, Completion(w, ERROR_SUCCESS, Chain(h.kbuf))) ] ]
    ELSE [ success |-> TRUE, s |-> [ s EXCEPT !.wp[w].pending = @ + 1 ] ]

\* CancelIo(directoryHandle): every read still pending completes with
\* ERROR_OPERATION_ABORTED; a read that has completed is not affected.
RECURSIVE Aborted(_, _)
Aborted(w, n) ==
    IF n = 0 THEN <<>>
    ELSE <<Completion(w, ERROR_OPERATION_ABORTED, <<>>)>> \o Aborted(w, n - 1)

CancelIo(s, w) ==
    IF s.wp[w].handleOpen
    THEN [ s EXCEPT !.wp[w].pending = 0,
                    !.apc = @ \o Aborted(w, s.wp[w].pending) ]
    ELSE s

\* CloseHandle(directoryHandle): the kernel stops collecting changes.
CloseHandle(s, w) ==
    [ s EXCEPT !.wp[w].handleOpen = FALSE, !.wp[w].kbuf = <<>>,
               !.wp[w].overflow = FALSE ]

(***************************************************************************)
(* WatchPoint                                                              *)
(***************************************************************************)
\* WatchPoint::WatchPoint(server, path, directoryHandle)
NewWatchPoint(path) ==
    [ mem |-> "alive", path |-> path, status |-> "WATCH_UNINITIALIZED",
      handleOpen |-> TRUE, pending |-> 0, kbuf |-> <<>>, overflow |-> FALSE,
      closes |-> 0 ]

\* WatchPoint::close; closes counts the calls.
close(s, w) ==
    [ CloseHandle(CancelIo(s, w), w) EXCEPT !.wp[w].closes = @ + 1 ]

\* WatchPoint::listen
listen(s, w) ==
    LET r == ReadDirectoryChangesW(s, w)
        s1 == [ r.s EXCEPT !.wp[w].status =
                    IF r.success THEN "WATCH_LISTENING" ELSE "WATCH_FAILED_TO_LISTEN" ]
    IN  \* listenerStarted.notify_all()
        IF s1.cpc = "awaitListening" /\ s1.cwp = w
        THEN [ s1 EXCEPT !.cpc = "woken" ]
        ELSE s1

(***************************************************************************)
(* The sink (FileWatcherCallback).                                         *)
(***************************************************************************)
\* pathChanged of the callback: the recording callback of the tests
\* rejects a path that is not absolute, the throwing one always throws.
SinkThrows(kind, path) ==
    IF kind = "throwing" THEN TRUE ELSE ~IsAbsolute(path)

\* Server::reportEvent: the exception a callback leaves pending is
\* neither checked nor cleared, and reportError is not called.
\* info is the record the event stems from (NoInfo for an invalidation).
reportEvent(s, w, type, changedPath, info) ==
    LET threw == SinkThrows(s.sinkKind, changedPath) IN
    [ s EXCEPT !.sink = Append(@, [ call |-> "pathChanged", type |-> type,
                                    path |-> changedPath, threw |-> threw,
                                    wp |-> w, info |-> info ]),
               !.pend = @ \/ threw ]

\* Server::reportFinished
RemoveAll(list, w) == SelectSeq(list, LAMBDA x : x # w)

\* A variant that empties the list instead of removing one WatchPoint.
reportFinishedClearsList(s, w) ==
    [ s EXCEPT !.list = << >>, !.wp[w].mem = "freed" ]

reportFinished(s, w) ==
    [ s EXCEPT !.list = RemoveAll(@, w), !.wp[w].mem = "freed" ]

NoInfo == [ Action |-> 0, FileName |-> <<>>, FileNameLength |-> 0,
            NextEntryOffset |-> 0, late |-> FALSE ]

\* A variant of eventType with a plausible slip: the old name of a
\* rename is taken for a modification.
eventTypeRenamedAsModified(Action) ==
    IF Action = FILE_ACTION_ADDED \/ Action = FILE_ACTION_RENAMED_NEW_NAME
    THEN "FILE_EVENT_CREATED"
    ELSE IF Action = FILE_ACTION_REMOVED
    THEN "FILE_EVENT_REMOVED"
    ELSE IF Action = FILE_ACTION_MODIFIED \/ Action = FILE_ACTION_RENAMED_OLD_NAME
    THEN "FILE_EVENT_MODIFIED"
    ELSE "FILE_EVENT_UNKNOWN"

\* Another variant of eventType with a plausible slip: the two halves of
\* a rename get a type of their own.
eventTypeRenamed(Action) ==
    IF Action = FILE_ACTION_ADDED
    THEN "FILE_EVENT_CREATED"
    ELSE IF Action = FILE_ACTION_REMOVED
    THEN "FILE_EVENT_REMOVED"
    ELSE IF Action = FILE_ACTION_MODIFIED
    THEN "FILE_EVENT_MODIFIED"
    ELSE IF Action = FILE_ACTION_RENAMED_OLD_NAME \/ Action = FILE_ACTION_RENAMED_NEW_NAME
    THEN "FILE_EVENT_RENAMED"
    ELSE "FILE_EVENT_UNKNOWN"

\* The type chosen for an action code (handlePathChanged).
eventType(Action) ==
    IF Action = FILE_ACTION_ADDED \/ Action = FILE_ACTION_RENAMED_NEW_NAME
    THEN "FILE_EVENT_CREATED"
    ELSE IF Action = FILE_ACTION_REMOVED \/ Action = FILE_ACTION_RENAMED_OLD_NAME
    THEN "FILE_EVENT_REMOVED"
    ELSE IF Action = FILE_ACTION_MODIFIED
    THEN "FILE_EVENT_MODIFIED"
    ELSE "FILE_EVENT_UNKNOWN"

\* A variant of changedPathOf with a plausible slip: only the last
\* component of the name is put behind the watched path.
changedPathOfLeaf(path, info) ==
    LET name == SubSeq(info.FileName, 1, info.FileNameLength \div SizeofWchar) IN
    IF name # <<>> THEN path \o <<Sep>> \o << name[Len(name)] >> ELSE name

\* The path built for a record (handlePathChanged): the name is cut to
\* FileNameLength bytes; a non-empty name gets the separator and the
\* WatchPoint's path put in front, an empty one is passed on as it is.
changedPathOf(path, info) ==
    LET name == SubSeq(info.FileName, 1, info.FileNameLength \div SizeofWchar) IN
    IF name # <<>> THEN path \o <<Sep>> \o name ELSE name

\* WatchPoint::handlePathChanged
handlePathChanged(s, w, info) ==
    reportEvent(s, w, eventType(info.Action), changedPathOf(s.wp[w].path, info), info)

\* A variant of the loop with a plausible slip: the records that follow
\* are dispatched before the record at hand.
RECURSIVE walkBufferLastFirst(_, _, _, _)
walkBufferLastFirst(s, w, buffer, at) ==
    LET rest == IF buffer[at].NextEntryOffset = 0
                THEN s
                ELSE walkBufferLastFirst(s, w, buffer, at + buffer[at].NextEntryOffset)
    IN  handlePathChanged(rest, w, buffer[at])

\* The loop of WatchPoint::handleEvent over the records of the buffer.
RECURSIVE walkBuffer(_, _, _, _)
walkBuffer(s, w, buffer, at) ==
    LET s1 == handlePathChanged(s, w, buffer[at]) IN
    IF buffer[at].NextEntryOffset = 0
    THEN s1
    ELSE walkBuffer(s1, w, buffer, at + buffer[at].NextEntryOffset)

\* WatchPoint::handleEvent, its first statement.
handleEventBegin(s, w) == [ s EXCEPT !.wp[w].status = "WATCH_NOT_LISTENING" ]

\* A variant of handleEvent with a plausible slip: after a zero-byte
\* completion the read is not scheduled again.
handleEventNoRearm(s, w, errorCode, bytesTransferred, buffer) ==
    IF errorCode = ERROR_OPERATION_ABORTED
    THEN reportFinished([ s EXCEPT !.wp[w].status = "WATCH_FINISHED" ], w)
    ELSE IF bytesTransferred = 0
    THEN reportEvent(s, w, "FILE_EVENT_INVALIDATE", s.wp[w].path, NoInfo)
    ELSE LET s2 == listen(walkBuffer(s, w, buffer, 1), w)
         IN  IF s2.wp[w].status # "WATCH_LISTENING"
             THEN reportFinished(s2, w)
             ELSE s2

\* Another variant of handleEvent with a plausible slip: the error code
\* is looked at only when the completion brought no bytes.
handleEventBytesFirst(s, w, errorCode, bytesTransferred, buffer) ==
    IF errorCode = ERROR_OPERATION_ABORTED /\ bytesTransferred = 0
    THEN reportFinished([ s EXCEPT !.wp[w].status = "WATCH_FINISHED" ], w)
    ELSE LET s1 == IF bytesTransferred = 0
                   THEN reportEvent(s, w, "FILE_EVENT_INVALIDATE", s.wp[w].path, NoInfo)
                   ELSE walkBuffer(s, w, buffer, 1)
             s2 == listen(s1, w)
         IN  IF s2.wp[w].status # "WATCH_LISTENING"
             THEN reportFinished(s2, w)
             ELSE s2

\* A third variant of handleEvent with a plausible slip: the next read
\* is scheduled before the buffer is walked, and again after it.
handleEventRearmsTwice(s, w, errorCode, bytesTransferred, buffer) ==
    IF errorCode = ERROR_OPERATION_ABORTED
    THEN reportFinished([ s EXCEPT !.wp[w].status = "WATCH_FINISHED" ], w)
    ELSE LET s0 == listen(s, w)
             s1 == IF bytesTransferred = 0
                   THEN reportEvent(s0, w, "FILE_EVENT_INVALIDATE", s0.wp[w].path, NoInfo)
                   ELSE walkBuffer(s0, w, buffer, 1)
             s2 == listen(s1, w)
         IN  IF s2.wp[w].status # "WATCH_LISTENING"
             THEN reportFinished(s2, w)
             ELSE s2

\* A fourth variant of handleEvent with a plausible slip: the next read
\* is scheduled before the buffer is walked.  The read writes into the
\* buffer of the WatchPoint, so when it completes at once the walk finds
\* the records of the new completion.
handleEventRearmsFirst(s, w, errorCode, bytesTransferred, buffer) ==
    IF errorCode = ERROR_OPERATION_ABORTED
    THEN reportFinished([ s EXCEPT !.wp[w].status = "WATCH_FINISHED" ], w)
    ELSE LET s0 == listen(s, w)
             overwritten == Len(s0.apc) > Len(s.apc) /\ s0.apc[Len(s0.apc)].bytes > 0
             s1 == IF bytesTransferred = 0
                   THEN reportEvent(s0, w, "FILE_EVENT_INVALIDATE", s0.wp[w].path, NoInfo)
                   ELSE walkBuffer(s0, w, IF overwritten THEN s0.apc[Len(s0.apc)].buffer
                                                         ELSE buffer, 1)
         IN  IF s1.wp[w].status # "WATCH_LISTENING"
             THEN reportFinished(s1, w)
             ELSE s1

\* WatchPoint::handleEvent, the rest.
handleEvent(s, w, errorCode, bytesTransferred, buffer) ==
    IF errorCode = ERROR_OPERATION_ABORTED
    THEN reportFinished([ s EXCEPT !.wp[w].status = "WATCH_FINISHED" ], w)
    ELSE LET s1 == IF bytesTransferred = 0
                   THEN reportEvent(s, w, "FILE_EVENT_INVALIDATE", s.wp[w].path, NoInfo)
                   ELSE walkBuffer(s, w, buffer, 1)
             s2 == listen(s1, w)
         IN  IF s2.wp[w].status # "WATCH_LISTENING"
             THEN reportFinished(s2, w)
             ELSE s2

(***************************************************************************)
(* Server                                                                  *)
(***************************************************************************)
\* Server::requestTermination
RECURSIVE closeAll(_, _)
closeAll(s, copyWatchPoints) ==
    IF copyWatchPoints = <<>>
    THEN s
    ELSE closeAll(close(s, Head(copyWatchPoints)), Tail(copyWatchPoints))

\* A variant of requestTermination with a plausible slip: the closed
\* WatchPoints are taken off the list at once.
requestTerminationClearsList(s) ==
    [ closeAll([ s EXCEPT !.term = TRUE ], s.list) EXCEPT !.list = <<>> ]

requestTermination(s) ==
    closeAll([ s EXCEPT !.term = TRUE ], s.list)

\* A variant of the condition with a plausible slip: the loop ends as
\* soon as termination is requested.
runLoopConditionTerminateOnly == ~terminate

\* The condition of the loop of Server::run.
runLoopCondition == ~terminate \/ Len(watchPoints) > 0

\* unregisterPath, run on the run-loop thread: the WatchPoints of the
\* path are closed; each leaves the set when its aborted read completes.
RECURSIVE closeMatching(_, _, _)
closeMatching(s, list, path) ==
    IF list = <<>>
    THEN s
    ELSE closeMatching(IF s.wp[Head(list)].path = path THEN close(s, Head(list)) ELSE s,
                       Tail(list), path)

\* A variant of unregisterPath with a plausible slip: the path is not
\* compared, every WatchPoint is closed.
unregisterPathClosesAll(s, path) == closeAll(s, s.list)

unregisterPath(s, path) == closeMatching(s, s.list, path)

\* QueueUserAPC(callback, threadHandle, arg) fails once the thread has ended.
QueueUserAPC(queue, apc) ==
    IF threadPc = "exited"
    THEN [ ret |-> 0, queue |-> queue ]
    ELSE [ ret |-> 1, queue |-> Append(queue, apc) ]

StartWatchApc(w) == [ NoApc EXCEPT !.kind = "startWatch", !.wp = w ]
TerminationApc == [ NoApc EXCEPT !.kind = "terminate" ]
UnregisterApc(path) == [ NoApc EXCEPT !.kind = "unregister", !.path = path ]

(***************************************************************************)
(* The caller thread.                                                      *)
(***************************************************************************)
\* Server::Server: the thread is created and the caller waits on
\* watcherThreadStarted, holding watcherThreadMutex until it waits.
ServerCtor ==
    /\ ~crashed
    /\ callerPc = "init"
    /\ serverMem' = "alive"
    /\ sinkRef' = TRUE
    /\ threadPc' = "attaching"
    /\ callerPc' = "ctorWait"
    /\ UNCHANGED << callerWp, callResult, closeCalls, sinkKind, threadJoined, current,
                    terminate, watchPoints, wp, apcQueue, sink, pendingException,
                    crashed, nChanges, unwatched >>

\* watcherThreadStarted.wait(lock) has no predicate: it may return
\* without a notification.
CtorSpuriousWake ==
    /\ ~crashed
    /\ callerPc = "ctorWait"
    /\ callerPc' = "idle"
    /\ UNCHANGED << callerWp, callResult, closeCalls, serverMem, sinkKind, sinkRef,
                    threadPc, threadJoined, current, terminate, watchPoints, wp,
                    apcQueue, sink, pendingException, crashed, nChanges, unwatched >>

FreeIds == { w \in WatchPointIds : wp[w].mem = "unborn" }
NextId == CHOOSE w \in FreeIds : \A v \in FreeIds : w <= v

\* Server::startWatching up to the wait in awaitListeningStarted.
StartWatching(path) ==
    /\ ~crashed
    /\ callerPc = "idle"
    /\ serverMem = "alive"
    /\ unwatched' = unwatched \ {path}
    /\ IF PathKind(path) = "missing"
       THEN \* CreateFileW gives INVALID_HANDLE_VALUE: logged, nothing else
            /\ callResult' = "ok"
            /\ UNCHANGED << callerPc, callerWp, wp, apcQueue >>
       ELSE /\ FreeIds # {}
            /\ wp' = [ wp EXCEPT ![NextId] = NewWatchPoint(path) ]
            /\ apcQueue' = QueueUserAPC(apcQueue, StartWatchApc(NextId)).queue
            /\ callerWp' = NextId
            /\ callerPc' = "awaitListening"
            /\ UNCHANGED callResult
    /\ UNCHANGED << closeCalls, serverMem, sinkKind, sinkRef, threadPc, threadJoined,
                    current, terminate, watchPoints, sink, pendingException, crashed,
                    nChanges >>

\* listenerStarted.wait(lock) has no predicate either.
AwaitSpuriousWake ==
    /\ ~crashed
    /\ callerPc = "awaitListening"
    /\ callerPc' = "woken"
    /\ UNCHANGED << callerWp, callResult, closeCalls, serverMem, sinkKind, sinkRef,
                    threadPc, threadJoined, current, terminate, watchPoints, wp,
                    apcQueue, sink, pendingException, crashed, nChanges, unwatched >>

\* A variant of the switch with a plausible slip: the caller thread
\* itself tells the sink that the watch could not be started.
startWatchingSwitchReports(s, w, ret) ==
    IF ret = "WATCH_LISTENING"
    THEN [ s EXCEPT !.list = Append(@, w) ]
    ELSE reportEvent([ s EXCEPT !.wp[w].mem = "freed" ], w, "FILE_EVENT_INVALIDATE",
                     s.wp[w].path, NoInfo)

\* Another variant of the switch with a plausible slip: the break of
\* the first case is missing and control falls through to the default.
startWatchingSwitchFallsThrough(s, w, ret) ==
    IF ret = "WATCH_LISTENING"
    THEN [ s EXCEPT !.list = Append(@, w), !.wp[w].mem = "freed" ]
    ELSE [ s EXCEPT !.wp[w].mem = "freed" ]

\* A third variant of the switch with a plausible slip: a WatchPoint
\* that could not start listening makes the Server give up.
startWatchingSwitchGivesUp(s, w, ret) ==
    IF ret = "WATCH_LISTENING"
    THEN [ s EXCEPT !.list = Append(@, w) ]
    ELSE [ s EXCEPT !.wp[w].mem = "freed", !.term = TRUE ]

\* The end of awaitListeningStarted (the status is read after the
\* unlock) and the switch of Server::startWatching on it.
startWatchingSwitch(s, w, ret) ==
    IF ret = "WATCH_LISTENING"
    THEN [ s EXCEPT !.list = Append(@, w) ]
    ELSE [ s EXCEPT !.wp[w].mem = "freed" ]

StartWatchingReturn ==
    /\ ~crashed
    /\ callerPc = "woken"
    /\ Install([ startWatchingSwitch(World, callerWp, wp[callerWp].status)
                    EXCEPT !.cpc = "idle" ])
    /\ callerWp' = 0
    /\ callResult' = "ok"
    /\ UNCHANGED << closeCalls, serverMem, sinkKind, sinkRef, threadPc, threadJoined,
                    current, crashed, nChanges, unwatched >>

\* stopWatching(path) of the watcher: the request is queued to the
\* run-loop thread and the caller waits until it has been carried out.
UnregisterPath(path) ==
    /\ ~crashed
    /\ callerPc = "idle"
    /\ serverMem = "alive"
    /\ LET q == QueueUserAPC(apcQueue, UnregisterApc(path)) IN
       /\ apcQueue' = q.queue
       /\ IF q.ret # 0
          THEN /\ callerPc' = "unregisterWait"
               /\ UNCHANGED << callResult, unwatched >>
          ELSE /\ callResult' = "ok"
               /\ unwatched' = unwatched \cup {path}
               /\ UNCHANGED callerPc
    /\ UNCHANGED << callerWp, closeCalls, serverMem, sinkKind, sinkRef, threadPc,
                    threadJoined, current, terminate, watchPoints, wp, sink,
                    pendingException, crashed, nChanges >>

\* The process is gone: no thread, no object, no handle is left; what
\* the user has seen of it stays.
Crash ==
    /\ crashed' = TRUE
    /\ callerPc' = "dead"
    /\ threadPc' = "dead"
    /\ callerWp' = 0
    /\ serverMem' = "none"
    /\ sinkRef' = FALSE
    /\ threadJoined' = FALSE
    /\ current' = NoApc
    /\ terminate' = FALSE
    /\ watchPoints' = <<>>
    /\ wp' = [ w \in WatchPointIds |-> NoWatchPoint ]
    /\ apcQueue' = <<>>
    /\ pendingException' = FALSE
    /\ nChanges' = MaxChanges
    /\ UNCHANGED << callResult, sinkKind, sink, unwatched >>

\* stopWatching of the JNI layer on a live Server: Server::close up to
\* the join.  When the request cannot be queued the thread is not
\* joined, and deleting the Server with a joinable thread ends the
\* process (std::terminate).
Close ==
    /\ ~crashed
    /\ callerPc = "idle"
    /\ serverMem = "alive"
    /\ closeCalls < MaxCloseCalls
    /\ closeCalls' = closeCalls + 1
    /\ LET q == QueueUserAPC(apcQueue, TerminationApc) IN
       IF q.ret = 0
       THEN Crash
       ELSE /\ apcQueue' = q.queue
            /\ callerPc' = "joining"
            /\ UNCHANGED << callerWp, callResult, sinkKind, sinkRef, serverMem, crashed,
                            threadPc, threadJoined, current, terminate, watchPoints, wp,
                            sink, pendingException, nChanges, unwatched >>

\* watcherThread.join() returns, the callback reference is deleted, and
\* stopWatching deletes the Server.
CloseJoin ==
    /\ ~crashed
    /\ callerPc = "joining"
    /\ threadPc = "exited"
    /\ threadJoined' = TRUE
    /\ sinkRef' = FALSE
    /\ serverMem' = "freed"
    /\ callerPc' = "idle"
    /\ callResult' = "ok"
    /\ UNCHANGED << callerWp, closeCalls, sinkKind, threadPc, current, terminate,
                    watchPoints, wp, apcQueue, sink, pendingException, crashed,
                    nChanges, unwatched >>

\* stopWatching of the JNI layer called again: Server::close runs on the
\* deleted Server.  When the memory is still intact the request cannot
\* be queued to the joined thread, and the call returns normally.
CloseFreed ==
    /\ ~crashed
    /\ callerPc = "idle"
    /\ serverMem = "freed"
    /\ closeCalls < MaxCloseCalls
    /\ closeCalls' = closeCalls + 1
    /\ callResult' = "ok"
    /\ UNCHANGED << callerPc, callerWp, serverMem, sinkKind, sinkRef, threadPc,
                    threadJoined, current, terminate, watchPoints, wp, apcQueue, sink,
                    pendingException, crashed, nChanges, unwatched >>

(***************************************************************************)
(* The run-loop thread.                                                    *)
(***************************************************************************)
\* Server::run up to the loop: without a JNI environment the thread
\* returns and watcherThreadStarted is never notified.
RunAttach(attached) ==
    /\ ~crashed
    /\ threadPc = "attaching"
    /\ IF attached
       THEN /\ threadPc' = "loop"
            /\ callerPc' = IF callerPc = "ctorWait" THEN "idle" ELSE callerPc
       ELSE /\ threadPc' = "exited"
            /\ UNCHANGED callerPc
    /\ UNCHANGED << callerWp, callResult, closeCalls, serverMem, sinkKind, sinkRef,
                    threadJoined, current, terminate, watchPoints, wp, apcQueue, sink,
                    pendingException, crashed, nChanges, unwatched >>

NextApc == Head(apcQueue)
Dequeued == [ World EXCEPT !.apc = Tail(apcQueue) ]

\* startWatchCallback, run by SleepEx
RunStartWatchCallback ==
    /\ ~crashed
    /\ threadPc = "loop"
    /\ apcQueue # <<>>
    /\ NextApc.kind = "startWatch"
    /\ Install(listen(Dequeued, NextApc.wp))
    /\ UNCHANGED << callerWp, callResult, closeCalls, serverMem, sinkKind, sinkRef,
                    threadPc, threadJoined, current, crashed, nChanges, unwatched >>

\* requestTerminationCallback, run by SleepEx
RunRequestTerminationCallback ==
    /\ ~crashed
    /\ threadPc = "loop"
    /\ apcQueue # <<>>
    /\ NextApc.kind = "terminate"
    /\ Install(requestTermination(Dequeued))
    /\ UNCHANGED << callerWp, callResult, closeCalls, serverMem, sinkKind, sinkRef,
                    threadPc, threadJoined, current, crashed, nChanges, unwatched >>

\* The unregister request, run by SleepEx; the caller is released.
RunUnregisterCallback ==
    /\ ~crashed
    /\ threadPc = "loop"
    /\ apcQueue # <<>>
    /\ NextApc.kind = "unregister"
    /\ Install([ unregisterPath(Dequeued, NextApc.path) EXCEPT
                    !.cpc = IF @ = "unregisterWait" THEN "idle" ELSE @ ])
    /\ unwatched' = unwatched \cup {NextApc.path}
    /\ callResult' = "ok"
    /\ UNCHANGED << callerWp, closeCalls, serverMem, sinkKind, sinkRef, threadPc,
                    threadJoined, current, crashed, nChanges >>

\* handleEventCallback, run by SleepEx: handleEvent starts.
RunHandleEventCallback ==
    /\ ~crashed
    /\ threadPc = "loop"
    /\ apcQueue # <<>>
    /\ NextApc.kind = "completion"
    /\ Install(handleEventBegin(Dequeued, NextApc.wp))
    /\ current' = NextApc
    /\ threadPc' = "handler"
    /\ UNCHANGED << callerWp, callResult, closeCalls, serverMem, sinkKind, sinkRef,
                    threadJoined, crashed, nChanges, unwatched >>

\* handleEvent runs to its end and the thread waits again.
RunHandleEvent ==
    /\ ~crashed
    /\ threadPc = "handler"
    /\ Install(handleEvent(World, current.wp, current.errorCode, current.bytes,
                           current.buffer))
    /\ current' = NoApc
    /\ threadPc' = "loop"
    /\ UNCHANGED << callerWp, callResult, closeCalls, serverMem, sinkKind, sinkRef,
                    threadJoined, crashed, nChanges, unwatched >>

\* The loop of Server::run ends; the reads the thread left pending are
\* cancelled with it.
RunExit ==
    /\ ~crashed
    /\ threadPc = "loop"
    /\ ~runLoopCondition
    /\ threadPc' = "exited"
    /\ wp' = [ w \in WatchPointIds |-> [ wp[w] EXCEPT !.pending = 0 ] ]
    /\ UNCHANGED << callerPc, callerWp, callResult, closeCalls, serverMem, sinkKind,
                    sinkRef, threadJoined, current, terminate, watchPoints, apcQueue,
                    sink, pendingException, crashed, nChanges, unwatched >>

(***************************************************************************)
(* Use of a deleted object: the process may fault where the code goes on   *)
(* to touch one; the actions above are the other outcome, in which the     *)
(* memory is still intact.                                                 *)
(***************************************************************************)
Freed(w) == w \in WatchPointIds /\ wp[w].mem = "freed"

TouchesFreed ==
    \/ callerPc = "woken" /\ Freed(callerWp)
    \/ callerPc = "idle" /\ serverMem = "freed" /\ closeCalls < MaxCloseCalls
    \/ threadPc = "handler" /\ Freed(current.wp)
    \/ /\ threadPc = "loop"
       /\ apcQueue # <<>>
       /\ \/ NextApc.kind \in { "startWatch", "completion" } /\ Freed(NextApc.wp)
          \/ /\ NextApc.kind \in { "terminate", "unregister" }
             /\ \E i \in 1..Len(watchPoints) : Freed(watchPoints[i])

Fault ==
    /\ ~crashed
    /\ TouchesFreed
    /\ Crash
    /\ UNCHANGED closeCalls

(***************************************************************************)
(* The file system.                                                        *)
(***************************************************************************)
\* A FILE_NOTIFY_INFORMATION; late tells that the change was made after
\* stopWatching of its directory had returned.
Info(action, name, late) ==
    [ Action |-> action, FileName |-> name, FileNameLength |-> Len(name) * SizeofWchar,
      NextEntryOffset |-> 0, late |-> late ]

\* seq numbers the changes in the order in which they are made.
Record(dir, action, name) ==
    Info(action, name, dir \in unwatched) @@ [ seq |-> nChanges + 1 ]

Watching(w, dir) == wp[w].handleOpen /\ wp[w].path = dir

\* In the life of the watcher the content of a record plays no part:
\* the environment adds the file f.  A change reaches every open handle
\* of the directory: it completes a pending read, or waits in the kernel
\* for the next one.
RECURSIVE Notify(_, _, _, _)
Notify(s, w, dir, info) ==
    IF w > MaxWatchPoints
    THEN s
    ELSE LET h == s.wp[w]
             s1 == IF ~(h.handleOpen /\ h.path = dir) \/ h.overflow
                   THEN s
                   ELSE IF h.pending > 0
                   THEN [ s EXCEPT !.wp[w].pending = @ - 1,
                                   !.apc = Append(@, Completion(w, ERROR_SUCCESS, <<info>>)) ]
                   ELSE [ s EXCEPT !.wp[w].kbuf = Append(@, info) ]
         IN  Notify(s1, w + 1, dir, info)

FsChange(dir) ==
    /\ ~crashed
    /\ nChanges < MaxChanges
    /\ threadPc # "exited"
    /\ \E w \in WatchPointIds : Watching(w, dir)
    /\ nChanges' = nChanges + 1
    /\ Install(Notify(World, 1, dir, Record(dir, FILE_ACTION_ADDED, <<"f">>)))
    /\ UNCHANGED << callerWp, callResult, closeCalls, serverMem, sinkKind, sinkRef,
                    threadPc, threadJoined, current, crashed, unwatched >>

Next ==
    \/ ServerCtor
    \/ CtorSpuriousWake
    \/ \E path \in UserPaths : StartWatching(path)
    \/ AwaitSpuriousWake
    \/ StartWatchingReturn
    \/ Close
    \/ CloseJoin
    \/ CloseFreed
    \/ \E attached \in BOOLEAN : RunAttach(attached)
    \/ RunStartWatchCallback
    \/ RunRequestTerminationCallback
    \/ RunHandleEventCallback
    \/ RunHandleEvent
    \/ RunExit
    \/ Fault
    \/ \E dir \in Dirs : FsChange(dir)

Spec == Init /\ [][Next]_vars

\* The watcher with stopWatching(path) added.
NextUnregister ==
    \/ Next
    \/ \E path \in Dirs : UnregisterPath(path)
    \/ RunUnregisterCallback

SpecUnregister == Init /\ [][NextUnregister]_vars

(***************************************************************************)
(* The handling of one completion, for every content of the buffer.  The   *)
(* watcher is running with one WatchPoint whose read has completed; the    *)
(* buffer holds up to MaxRecords records of any action code and name (no   *)
(* record: the zero-byte completion after an overflow).  More changes may  *)
(* wait in the kernel, and the caller may already have asked to close.     *)
(***************************************************************************)
AllRecords ==
    { Info(action, name, FALSE) : action \in ActionCodes, name \in FileNames }

RECURSIVE Buffers(_)
Buffers(n) ==
    IF n = 0
    THEN { <<>> }
    ELSE LET shorter == Buffers(n - 1) IN
         shorter \cup { Append(b, r) : b \in { x \in shorter : Len(x) = n - 1 },
                                       r \in AllRecords }

Waiting == { <<>>, << Info(FILE_ACTION_MODIFIED, <<"f">>, FALSE) >> }

InitRecords ==
    /\ callerWp = 0
    /\ callResult = "ok"
    /\ serverMem = "alive"
    /\ sinkKind \in SinkKinds
    /\ sinkRef = TRUE
    /\ threadPc = "loop"
    /\ threadJoined = FALSE
    /\ current = NoApc
    /\ terminate = FALSE
    /\ watchPoints = << 1 >>
    /\ \E path \in Dirs, kbuf \in Waiting, overflow \in BOOLEAN :
          /\ overflow => kbuf = <<>>
          /\ wp = [ w \in WatchPointIds |->
                      IF w = 1
                      THEN [ NewWatchPoint(path) EXCEPT !.status = "WATCH_LISTENING",
                                                        !.kbuf = kbuf,
                                                        !.overflow = overflow ]
                      ELSE NoWatchPoint ]
    /\ \E buffer \in Buffers(MaxRecords), closing \in BOOLEAN :
          /\ callerPc = IF closing THEN "joining" ELSE "idle"
          /\ closeCalls = IF closing THEN 1 ELSE 0
          /\ apcQueue = (IF closing THEN << TerminationApc >> ELSE <<>>)
                          \o << Completion(1, ERROR_SUCCESS, Chain(buffer)) >>
    /\ sink = <<>>
    /\ pendingException = FALSE
    /\ crashed = FALSE
    /\ nChanges = MaxChanges
    /\ unwatched = {}

NextRecords ==
    \/ RunRequestTerminationCallback
    \/ RunHandleEventCallback
    \/ RunHandleEvent
    \/ RunExit
    \/ CloseJoin

SpecRecords == InitRecords /\ [][NextRecords]_vars

(***************************************************************************)
(* The watcher under a fair scheduler: the run-loop thread is scheduled    *)
(* while it has a step to take (SleepEx runs the queued APCs, the loop     *)
(* of Server::run ends when its condition is false), and join returns      *)
(* once the thread has ended.  Nothing obliges the caller or the file      *)
(* system to act.                                                          *)
(***************************************************************************)
RunLoop ==
    \/ \E attached \in BOOLEAN : RunAttach(attached)
    \/ RunStartWatchCallback
    \/ RunRequestTerminationCallback
    \/ RunHandleEventCallback
    \/ RunHandleEvent
    \/ RunExit

FairSpec == Spec /\ WF_vars(RunLoop) /\ WF_vars(CloseJoin)

(***************************************************************************)
(* Properties                                                              *)
(***************************************************************************)
NoReportError == \A i \in 1..Len(sink) : sink[i].call # "reportError"

CloseReturned ==
    /\ callerPc = "idle"
    /\ callResult = "ok"
    /\ threadPc = "exited"
    /\ threadJoined
    /\ serverMem = "freed"

\* C1: shutdown always completes.  Once close has queued its termination
\* request to the run-loop thread of a running Server, whatever
\* WatchPoints are registered and whatever completions are queued, the
\* thread eventually exits and close returns normally; and reportError
\* is never called on the sink.
ShutdownCompletes ==
    /\ (callerPc = "joining") ~> CloseReturned
    /\ []NoReportError

\* The runs in which close does not return are exactly those in which
\* the process faults on a deleted WatchPoint.
ShutdownCompletesUnlessFault ==
    /\ (callerPc = "joining") ~> (CloseReturned \/ crashed)
    /\ []NoReportError

\* C2: duplicate start fails.  startWatching of a path that is already
\* registered does not create a second WatchPoint: the set of WatchPoints
\* holds at most one entry per path.
DuplicateStartFails ==
    \A i, j \in 1..Len(watchPoints) :
        wp[watchPoints[i]].path = wp[watchPoints[j]].path => i = j

\* C3: double close fails.  Once close has been called on a watcher, the
\* call of a second close reports AlreadyClosed.
DoubleCloseFails ==
    closeCalls >= 2 => callResult = "AlreadyClosed"

\* A path is watched while a registered WatchPoint holds an open handle
\* on it.
Watched(path) ==
    \E i \in 1..Len(watchPoints) :
        wp[watchPoints[i]].path = path /\ wp[watchPoints[i]].handleOpen

\* The run-loop thread carries out the stopWatching request at the head
\* of its queue.
UnregisterStep ==
    /\ threadPc = "loop"
    /\ apcQueue # <<>>
    /\ NextApc.kind = "unregister"
    /\ apcQueue' = Tail(apcQueue)
    /\ ~crashed'

\* C4: idempotent stop.  stopWatching of a path that is not watched
\* (never watched, or un-watched before) reports no error and leaves the
\* set of WatchPoints, the WatchPoints and the state of the Server as
\* they were.
IdempotentStop ==
    [][ (UnregisterStep /\ ~Watched(NextApc.path))
            => /\ callResult' = "ok"
               /\ NoReportError'
               /\ UNCHANGED << watchPoints, wp, terminate, serverMem, threadPc,
                               sink, pendingException >> ]_vars

\* stopWatching of a path that was never watched has returned while
\* another directory is being watched.
StoppedUnwatchedPath ==
    /\ ~crashed
    /\ callerPc = "idle"
    /\ callResult = "ok"
    /\ DirB \in unwatched
    /\ \A w \in WatchPointIds : wp[w].path # DirB
    /\ Len(watchPoints) = 1
    /\ wp[watchPoints[1]].handleOpen
    /\ wp[watchPoints[1]].status = "WATCH_LISTENING"

\* C5: no events after unregister.  No call on the sink stems from a
\* change made under a path after stopWatching of that path had returned.
NoEventsAfterUnregister ==
    \A i \in 1..Len(sink) : ~sink[i].info.late

Thrown == { i \in 1..Len(sink) : sink[i].call = "pathChanged" /\ sink[i].threw }
Reported == { i \in 1..Len(sink) : sink[i].call = "reportError" }

\* C6: callback isolation.  Every pathChanged call that throws is caught
\* and answered by exactly one reportError call on the sink: at all times
\* there are as many reportError calls as calls of pathChanged that threw.
CallbackIsolation ==
    Cardinality(Reported) = Cardinality(Thrown)

\* C7: absolute paths.  Every pathChanged call receives an absolute
\* path, whatever the record it stems from, the record with an empty
\* file name included.
AbsolutePaths ==
    \A i \in 1..Len(sink) : sink[i].call = "pathChanged" => IsAbsolute(sink[i].path)

\* C8: events come only from watched roots.  Every path delivered to the
\* sink is the stored path of the WatchPoint it stems from, or that path
\* followed by a separator and the relative name the OS reported; the
\* stored path is a path the user passed.
FromWatchedRoots ==
    \A i \in 1..Len(sink) :
        LET root == wp[sink[i].wp].path IN
        /\ root \in UserPaths
        /\ \/ sink[i].path = root
           \/ sink[i].path = root \o <<Sep>> \o sink[i].info.FileName

\* The type the specification gives for an action code.
ChangeTypeOf(Action) ==
    CASE Action \in { FILE_ACTION_ADDED, FILE_ACTION_RENAMED_NEW_NAME } -> "FILE_EVENT_CREATED"
      [] Action \in { FILE_ACTION_REMOVED, FILE_ACTION_RENAMED_OLD_NAME } -> "FILE_EVENT_REMOVED"
      [] Action = FILE_ACTION_MODIFIED -> "FILE_EVENT_MODIFIED"
      [] OTHER -> "FILE_EVENT_UNKNOWN"

\* handleEvent runs on a completion that carries records.
RecordsStep ==
    /\ threadPc = "handler"
    /\ current.errorCode # ERROR_OPERATION_ABORTED
    /\ current.bytes # 0
    /\ threadPc' = "loop"

\* C9: the action mapping is total and exact.  Handling a completion
\* dispatches one event per record of the buffer, in order, and the type
\* of each is the one the table gives for the record's action code:
\* ADDED and RENAMED_NEW_NAME give CREATED, REMOVED and RENAMED_OLD_NAME
\* give REMOVED, MODIFIED gives MODIFIED, every other code gives UNKNOWN.
ActionMapping ==
    [][ RecordsStep
            => /\ Len(sink') = Len(sink) + Len(current.buffer)
               /\ \A k \in 1..Len(current.buffer) :
                     /\ sink'[Len(sink) + k].info.Action = current.buffer[k].Action
                     /\ sink'[Len(sink) + k].type = ChangeTypeOf(current.buffer[k].Action) ]_vars

\* A buffer with an unknown action code and the old name of a rename
\* has been dispatched.
MappedUnknownAndRename ==
    /\ threadPc = "loop"
    /\ Len(sink) = 2
    /\ sink[1].info.Action = 6
    /\ sink[1].type = "FILE_EVENT_UNKNOWN"
    /\ sink[2].info.Action = FILE_ACTION_RENAMED_OLD_NAME
    /\ sink[2].type = "FILE_EVENT_REMOVED"

\* Reads of a WatchPoint that are outstanding: pending in the kernel, or
\* completed with the completion routine queued.
Reads(w, objects, queue) ==
    objects[w].pending
      + Cardinality({ i \in 1..Len(queue) :
                        queue[i].kind = "completion" /\ queue[i].wp = w })

Outstanding(w) == Reads(w, wp, apcQueue)

\* handleEvent runs on a zero-byte completion that is not aborted.
ZeroByteStep ==
    /\ threadPc = "handler"
    /\ current.errorCode # ERROR_OPERATION_ABORTED
    /\ current.bytes = 0
    /\ threadPc' = "loop"

\* Exactly one event is dispatched: INVALIDATE on the watched root.
InvalidatedOnce ==
    /\ Len(sink') = Len(sink) + 1
    /\ SubSeq(sink', 1, Len(sink)) = sink
    /\ sink'[Len(sink')].call = "pathChanged"
    /\ sink'[Len(sink')].type = "FILE_EVENT_INVALIDATE"
    /\ sink'[Len(sink')].path = wp[current.wp].path

Rearmed ==
    /\ wp'[current.wp].status = "WATCH_LISTENING"
    /\ wp'[current.wp].mem = wp[current.wp].mem
    /\ Reads(current.wp, wp', apcQueue') = Outstanding(current.wp) + 1

Removed ==
    /\ wp'[current.wp].mem = "freed"
    /\ \A i \in 1..Len(watchPoints') : watchPoints'[i] # current.wp
    /\ Reads(current.wp, wp', apcQueue') = Outstanding(current.wp)

RegistrationErrors == { "WatchFailed", "InvalidTarget" }

\* startWatching returns for a path the OS refuses: a path that does
\* not exist (CreateFileW fails), or a file (the read cannot be started).
RefusedStartReturns ==
    \/ StartWatching(MissingPath)
    \/ /\ StartWatchingReturn
       /\ PathKind(wp[callerWp].path) = "file"
       /\ wp[callerWp].status = "WATCH_FAILED_TO_LISTEN"

\* C11: registration failure is reported.  When the path does not exist
\* or is a file, startWatching does not return normally: the call
\* reports WatchFailed or InvalidTarget.
RegistrationFailureReported ==
    [][ RefusedStartReturns => callResult' \in RegistrationErrors ]_vars

\* C12: the start of the Server is a bounded handshake.  A caller that
\* is blocked in the constructor is waiting for a run-loop thread that
\* is still to signal readiness or failure: it is never left waiting for
\* a thread that has ended without a signal.
StartHandshakeBounded ==
    callerPc = "ctorWait" => threadPc = "attaching"

\* The other half of the handshake: the constructor returns only after
\* the run-loop thread has signalled.
StartReturnsAfterSignal ==
    callerPc \in { "idle", "awaitListening", "woken", "joining" } => threadPc # "attaching"

\* C13: shutdown with timeout.  The wait of close is bounded by its
\* timeout, which may elapse at any moment: whenever the caller is
\* waiting in close it is able to return, with true when the run loop
\* has terminated and with false when it is still running.
ShutdownWaitBounded ==
    callerPc = "joining" => ENABLED CloseJoin

\* The events of a WatchPoint that stem from records, as positions of
\* the sink.
RecordEvents(w) ==
    { i \in 1..Len(sink) : sink[i].wp = w /\ sink[i].type # "FILE_EVENT_INVALIDATE" }

\* C14: per-watch ordering.  The events of one WatchPoint reach the sink
\* in the order in which the OS recorded the changes, within the buffer
\* of one completion and from one completion to the next.
PerWatchOrdering ==
    \A w \in WatchPointIds : \A i, j \in RecordEvents(w) :
        i < j => sink[i].info.seq < sink[j].info.seq

\* Two changes under one root have been delivered from a single buffer.
TwoEventsOfOneBuffer ==
    /\ threadPc = "loop"
    /\ current = NoApc
    /\ Len(sink) = 2
    /\ sink[1].wp = sink[2].wp
    /\ sink[1].info.NextEntryOffset # 0
    /\ sink[1].info.seq = 1
    /\ sink[2].info.seq = 2

\* Two changes under one root have been delivered by two completions.
TwoEventsOfTwoCompletions ==
    /\ threadPc = "loop"
    /\ Len(sink) = 2
    /\ sink[1].wp = sink[2].wp
    /\ sink[1].info.NextEntryOffset = 0
    /\ sink[1].info.seq = 1
    /\ sink[2].info.seq = 2

\* C15: every call on the sink is made by the run-loop thread, inside
\* the completion routine it is running, and never by the caller thread;
\* the calls of one Server are therefore made one after the other.
SinkCalledOnRunLoopThread ==
    [][ sink' # sink
            => /\ threadPc = "handler"
               /\ threadPc' = "loop"
               /\ Len(sink') > Len(sink)
               /\ SubSeq(sink', 1, Len(sink)) = sink ]_vars

\* An event has been delivered while the caller thread is inside
\* startWatching.
EventDuringStartWatching ==
    /\ sink # <<>>
    /\ callerPc \in { "awaitListening", "woken" }
    /\ threadPc = "loop"

\* The name of a record names a non-direct descendant of the root.
IsDescendantName(name) == \E i \in 1..Len(name) : name[i] = Sep

\* C16: the watch is recursive.  A record for a non-direct descendant of
\* the watched root yields an event whose path is the root, a separator
\* and the full relative path of the descendant.
DescendantPath ==
    [][ RecordsStep
            => \A k \in 1..Len(current.buffer) :
                  IsDescendantName(current.buffer[k].FileName)
                      => sink'[Len(sink) + k].path
                            = wp[current.wp].path \o <<Sep>> \o current.buffer[k].FileName ]_vars

\* The creation of sub\g under C:\a has been delivered.
DescendantCreated ==
    /\ threadPc = "loop"
    /\ Len(sink) = 1
    /\ sink[1].type = "FILE_EVENT_CREATED"
    /\ sink[1].path = << "C:", Sep, "a", Sep, "sub", Sep, "g" >>
    /\ wp[sink[1].wp].path = DirA

\* startWatching returns for a directory that an earlier WatchPoint of
\* the same watcher watched until stopWatching closed it.
RestartReturns ==
    /\ StartWatchingReturn
    /\ PathKind(wp[callerWp].path) = "dir"
    /\ \E w \in WatchPointIds \ { callerWp } :
          /\ wp[w].path = wp[callerWp].path
          /\ wp[w].mem # "unborn"
          /\ ~wp[w].handleOpen

\* C17: a path can be watched again after being un-watched.  The second
\* startWatching of the path succeeds: when it returns, the path is
\* watched by a registered WatchPoint whose handle is open, so that
\* changes under it are delivered again.
CanRestartWatching ==
    [][ RestartReturns
            => /\ callResult' = "ok"
               /\ \E i \in 1..Len(watchPoints') : watchPoints'[i] = callerWp
               /\ wp'[callerWp].mem = "alive"
               /\ wp'[callerWp].handleOpen ]_vars

(***************************************************************************)
(* Two watchers in one process.  Each Server has its own run-loop thread,  *)
(* APC queue, WatchPoint list, terminate flag and callback; here the       *)
(* variables that belong to a Server hold one value per Server.  One       *)
(* caller thread works on both, and each Server watches its own root.      *)
(* The handlers are the ones above, run on the World of their Server.      *)
(***************************************************************************)
Servers == { 1, 2 }

Root(k) == IF k = 1 THEN DirA ELSE DirB

\* The callback a Server calls: this->watcherCallback, its own.
SinkOf(k) == k

CallerAt(pc, k) == [ pc |-> pc, server |-> IF pc = "idle" THEN 0 ELSE k ]

InitTwo ==
    /\ callerPc = CallerAt("idle", 0)
    /\ callerWp = 0
    /\ callResult = "none"
    /\ closeCalls = 0
    /\ serverMem = [ k \in Servers |-> "none" ]
    /\ sinkKind = "recording"
    /\ sinkRef = [ k \in Servers |-> FALSE ]
    /\ threadPc = [ k \in Servers |-> "notStarted" ]
    /\ threadJoined = [ k \in Servers |-> FALSE ]
    /\ current = [ k \in Servers |-> NoApc ]
    /\ terminate = [ k \in Servers |-> FALSE ]
    /\ watchPoints = [ k \in Servers |-> <<>> ]
    /\ wp = [ w \in WatchPointIds |-> NoWatchPoint ]
    /\ apcQueue = [ k \in Servers |-> <<>> ]
    /\ sink = [ k \in Servers |-> <<>> ]
    /\ pendingException = [ k \in Servers |-> FALSE ]
    /\ crashed = FALSE
    /\ nChanges = 0
    /\ unwatched = {}

WorldOf(k) ==
    [ wp |-> wp, apc |-> apcQueue[k], sink |-> sink[SinkOf(k)], list |-> watchPoints[k],
      cpc |-> callerPc.pc, cwp |-> callerWp, pend |-> pendingException[k],
      term |-> terminate[k], sinkKind |-> sinkKind ]

InstallOf(k, s) ==
    /\ wp' = s.wp
    /\ apcQueue' = [ apcQueue EXCEPT ![k] = s.apc ]
    /\ sink' = [ sink EXCEPT ![SinkOf(k)] = s.sink ]
    /\ watchPoints' = [ watchPoints EXCEPT ![k] = s.list ]
    /\ callerPc' = CallerAt(s.cpc, callerPc.server)
    /\ pendingException' = [ pendingException EXCEPT ![k] = s.pend ]
    /\ terminate' = [ terminate EXCEPT ![k] = s.term ]

\* Server::Server of Server k
ServerCtorOf(k) ==
    /\ ~crashed
    /\ callerPc.pc = "idle"
    /\ serverMem[k] = "none"
    /\ serverMem' = [ serverMem EXCEPT ![k] = "alive" ]
    /\ sinkRef' = [ sinkRef EXCEPT ![k] = TRUE ]
    /\ threadPc' = [ threadPc EXCEPT ![k] = "attaching" ]
    /\ callerPc' = CallerAt("ctorWait", k)
    /\ UNCHANGED << callerWp, callResult, closeCalls, sinkKind, threadJoined, current,
                    terminate, watchPoints, wp, apcQueue, sink, pendingException,
                    crashed, nChanges, unwatched >>

\* watcherThreadStarted.wait(lock) returns without a notification.
CtorSpuriousWakeTwo ==
    /\ ~crashed
    /\ callerPc.pc = "ctorWait"
    /\ callerPc' = CallerAt("idle", 0)
    /\ UNCHANGED << callerWp, callResult, closeCalls, serverMem, sinkKind, sinkRef,
                    threadPc, threadJoined, current, terminate, watchPoints, wp,
                    apcQueue, sink, pendingException, crashed, nChanges, unwatched >>

\* Server::startWatching of Server k on its root, up to the wait.
StartWatchingOf(k) ==
    /\ ~crashed
    /\ callerPc.pc = "idle"
    /\ serverMem[k] = "alive"
    /\ FreeIds # {}
    /\ wp' = [ wp EXCEPT ![NextId] = NewWatchPoint(Root(k)) ]
    /\ apcQueue' = [ apcQueue EXCEPT ![k] =
                        IF threadPc[k] = "exited" THEN @ ELSE Append(@, StartWatchApc(NextId)) ]
    /\ callerWp' = NextId
    /\ callerPc' = CallerAt("awaitListening", k)
    /\ UNCHANGED << callResult, closeCalls, serverMem, sinkKind, sinkRef, threadPc,
                    threadJoined, current, terminate, watchPoints, sink,
                    pendingException, crashed, nChanges, unwatched >>

\* listenerStarted.wait(lock) returns without a notification.
AwaitSpuriousWakeTwo ==
    /\ ~crashed
    /\ callerPc.pc = "awaitListening"
    /\ callerPc' = CallerAt("woken", callerPc.server)
    /\ UNCHANGED << callerWp, callResult, closeCalls, serverMem, sinkKind, sinkRef,
                    threadPc, threadJoined, current, terminate, watchPoints, wp,
                    apcQueue, sink, pendingException, crashed, nChanges, unwatched >>

\* The end of awaitListeningStarted and the switch of startWatching.
StartWatchingReturnTwo ==
    /\ ~crashed
    /\ callerPc.pc = "woken"
    /\ InstallOf(callerPc.server,
                 [ startWatchingSwitch(WorldOf(callerPc.server), callerWp, wp[callerWp].status)
                      EXCEPT !.cpc = "idle" ])
    /\ callerWp' = 0
    /\ callResult' = "ok"
    /\ UNCHANGED << closeCalls, serverMem, sinkKind, sinkRef, threadPc, threadJoined,
                    current, crashed, nChanges, unwatched >>

\* The process is gone, and both watchers with it.
CrashTwo ==
    /\ crashed' = TRUE
    /\ callerPc' = CallerAt("dead", 0)
    /\ threadPc' = [ k \in Servers |-> "dead" ]
    /\ callerWp' = 0
    /\ serverMem' = [ k \in Servers |-> "none" ]
    /\ sinkRef' = [ k \in Servers |-> FALSE ]
    /\ threadJoined' = [ k \in Servers |-> FALSE ]
    /\ current' = [ k \in Servers |-> NoApc ]
    /\ terminate' = [ k \in Servers |-> FALSE ]
    /\ watchPoints' = [ k \in Servers |-> <<>> ]
    /\ wp' = [ w \in WatchPointIds |-> NoWatchPoint ]
    /\ apcQueue' = [ k \in Servers |-> <<>> ]
    /\ pendingException' = [ k \in Servers |-> FALSE ]
    /\ nChanges' = MaxChanges
    /\ UNCHANGED << callResult, sinkKind, sink, unwatched >>

\* stopWatching of the JNI layer on Server k: Server::close up to the join.
CloseOf(k) ==
    /\ ~crashed
    /\ callerPc.pc = "idle"
    /\ serverMem[k] = "alive"
    /\ closeCalls' = closeCalls + 1
    /\ IF threadPc[k] = "exited"
       THEN CrashTwo
       ELSE /\ apcQueue' = [ apcQueue EXCEPT ![k] = Append(@, TerminationApc) ]
            /\ callerPc' = CallerAt("joining", k)
            /\ UNCHANGED << callerWp, callResult, sinkKind, sinkRef, serverMem, crashed,
                            threadPc, threadJoined, current, terminate, watchPoints, wp,
                            sink, pendingException, nChanges, unwatched >>

\* join returns, the callback reference and the Server are deleted.
CloseJoinTwo ==
    /\ ~crashed
    /\ callerPc.pc = "joining"
    /\ threadPc[callerPc.server] = "exited"
    /\ threadJoined' = [ threadJoined EXCEPT ![callerPc.server] = TRUE ]
    /\ sinkRef' = [ sinkRef EXCEPT ![callerPc.server] = FALSE ]
    /\ serverMem' = [ serverMem EXCEPT ![callerPc.server] = "freed" ]
    /\ callerPc' = CallerAt("idle", 0)
    /\ callResult' = "ok"
    /\ UNCHANGED << callerWp, closeCalls, sinkKind, threadPc, current, terminate,
                    watchPoints, wp, apcQueue, sink, pendingException, crashed,
                    nChanges, unwatched >>

\* Server::run of Server k up to the loop.
RunAttachOf(k, attached) ==
    /\ ~crashed
    /\ threadPc[k] = "attaching"
    /\ IF attached
       THEN /\ threadPc' = [ threadPc EXCEPT ![k] = "loop" ]
            /\ callerPc' = IF callerPc = CallerAt("ctorWait", k)
                           THEN CallerAt("idle", 0)
                           ELSE callerPc
       ELSE /\ threadPc' = [ threadPc EXCEPT ![k] = "exited" ]
            /\ UNCHANGED callerPc
    /\ UNCHANGED << callerWp, callResult, closeCalls, serverMem, sinkKind, sinkRef,
                    threadJoined, current, terminate, watchPoints, wp, apcQueue, sink,
                    pendingException, crashed, nChanges, unwatched >>

\* SleepEx of the run-loop thread of Server k runs the next APC:
\* startWatchCallback, requestTerminationCallback, or the start of
\* handleEventCallback.
RunApcOf(k) ==
    /\ ~crashed
    /\ threadPc[k] = "loop"
    /\ apcQueue[k] # <<>>
    /\ LET apc == Head(apcQueue[k])
           s == [ WorldOf(k) EXCEPT !.apc = Tail(apcQueue[k]) ]
       IN  IF apc.kind = "completion"
           THEN /\ InstallOf(k, handleEventBegin(s, apc.wp))
                /\ current' = [ current EXCEPT ![k] = apc ]
                /\ threadPc' = [ threadPc EXCEPT ![k] = "handler" ]
           ELSE /\ InstallOf(k, IF apc.kind = "startWatch"
                                THEN listen(s, apc.wp)
                                ELSE requestTermination(s))
                /\ UNCHANGED << current, threadPc >>
    /\ UNCHANGED << callerWp, callResult, closeCalls, serverMem, sinkKind, sinkRef,
                    threadJoined, crashed, nChanges, unwatched >>

\* handleEvent runs to its end on the run-loop thread of Server k.
RunHandleEventOf(k) ==
    /\ ~crashed
    /\ threadPc[k] = "handler"
    /\ InstallOf(k, handleEvent(WorldOf(k), current[k].wp, current[k].errorCode,
                                current[k].bytes, current[k].buffer))
    /\ current' = [ current EXCEPT ![k] = NoApc ]
    /\ threadPc' = [ threadPc EXCEPT ![k] = "loop" ]
    /\ UNCHANGED << callerWp, callResult, closeCalls, serverMem, sinkKind, sinkRef,
                    threadJoined, crashed, nChanges, unwatched >>

\* The loop of Server::run of Server k ends.
RunExitOf(k) ==
    /\ ~crashed
    /\ threadPc[k] = "loop"
    /\ ~(~terminate[k] \/ Len(watchPoints[k]) > 0)
    /\ threadPc' = [ threadPc EXCEPT ![k] = "exited" ]
    /\ wp' = [ w \in WatchPointIds |->
                 IF wp[w].path = Root(k) THEN [ wp[w] EXCEPT !.pending = 0 ] ELSE wp[w] ]
    /\ UNCHANGED << callerPc, callerWp, callResult, closeCalls, serverMem, sinkKind,
                    sinkRef, threadJoined, current, terminate, watchPoints, apcQueue,
                    sink, pendingException, crashed, nChanges, unwatched >>

\* The code touches a deleted WatchPoint: the process may fault.
TouchesFreedTwo ==
    \/ callerPc.pc = "woken" /\ Freed(callerWp)
    \/ \E k \in Servers :
          \/ threadPc[k] = "handler" /\ Freed(current[k].wp)
          \/ /\ threadPc[k] = "loop"
             /\ apcQueue[k] # <<>>
             /\ \/ /\ Head(apcQueue[k]).kind \in { "startWatch", "completion" }
                   /\ Freed(Head(apcQueue[k]).wp)
                \/ /\ Head(apcQueue[k]).kind = "terminate"
                   /\ \E i \in 1..Len(watchPoints[k]) : Freed(watchPoints[k][i])

FaultTwo ==
    /\ ~crashed
    /\ TouchesFreedTwo
    /\ CrashTwo
    /\ UNCHANGED closeCalls

\* A file is created under the root of Server k.
FsChangeOf(k) ==
    /\ ~crashed
    /\ nChanges < MaxChanges
    /\ threadPc[k] # "exited"
    /\ \E w \in WatchPointIds : Watching(w, Root(k))
    /\ nChanges' = nChanges + 1
    /\ InstallOf(k, Notify(WorldOf(k), 1, Root(k), Record(Root(k), FILE_ACTION_ADDED, <<"f">>)))
    /\ UNCHANGED << callerWp, callResult, closeCalls, serverMem, sinkKind, sinkRef,
                    threadPc, threadJoined, current, crashed, unwatched >>

NextTwo ==
    \/ \E k \in Servers : ServerCtorOf(k)
    \/ CtorSpuriousWakeTwo
    \/ \E k \in Servers : StartWatchingOf(k)
    \/ AwaitSpuriousWakeTwo
    \/ StartWatchingReturnTwo
    \/ \E k \in Servers : CloseOf(k)
    \/ CloseJoinTwo
    \/ \E k \in Servers, attached \in BOOLEAN : RunAttachOf(k, attached)
    \/ \E k \in Servers : RunApcOf(k)
    \/ \E k \in Servers : RunHandleEventOf(k)
    \/ \E k \in Servers : RunExitOf(k)
    \/ FaultTwo
    \/ \E k \in Servers : FsChangeOf(k)

SpecTwo == InitTwo /\ [][NextTwo]_vars

(***************************************************************************)
(* Independence of two watchers.                                           *)
(***************************************************************************)
Under(path, root) ==
    Len(path) >= Len(root) /\ SubSeq(path, 1, Len(root)) = root

\* Every event a sink has received lies under the root of its own Server.
EventsOfOwnRoot ==
    \A k \in Servers : \A i \in 1..Len(sink[k]) : Under(sink[k][i].path, Root(k))

\* All there is of Server k: its fields, its thread, its queue, its sink
\* and the WatchPoints of its root.
ServerState(k, mem, ref, pc, joined, cur, term, list, objects, queue, events, pend) ==
    << mem[k], ref[k], pc[k], joined[k], cur[k], term[k], list[k],
       [ w \in WatchPointIds |-> IF objects[w].path = Root(k) THEN objects[w] ELSE NoWatchPoint ],
       queue[k], events[k], pend[k] >>

Undisturbed(k) ==
    ServerState(k, serverMem', sinkRef', threadPc', threadJoined', current', terminate',
                watchPoints', wp', apcQueue', sink', pendingException')
  = ServerState(k, serverMem, sinkRef, threadPc, threadJoined, current, terminate,
                watchPoints, wp, apcQueue, sink, pendingException)

\* Server k has been started and not closed, and its thread runs the loop.
Running(k) == serverMem[k] = "alive" /\ threadPc[k] \in { "loop", "handler" }

\* A step of stopWatching on Server k, on the caller thread or on the
\* run-loop thread of k.
ClosingStep(k) ==
    \/ CloseOf(k)
    \/ CloseJoinTwo /\ callerPc.server = k
    \/ RunApcOf(k) /\ terminate'[k]
    \/ RunHandleEventOf(k) /\ terminate[k]
    \/ RunExitOf(k)

\* C18: watchers are independent.  With two Servers, each with its own
\* sink and its own root, every event a sink receives lies under the root
\* of its own Server, and no step of closing one Server changes anything
\* of the other, running one.
WatchersIndependent ==
    /\ []EventsOfOwnRoot
    /\ [][ \A k \in Servers :
              ClosingStep(k) => \A j \in Servers \ { k } : Running(j) => Undisturbed(j) ]_vars

\* The same with the end of the process set aside: as long as the process
\* lives, closing one Server changes nothing of the other.
IndependentWhileAlive ==
    /\ []EventsOfOwnRoot
    /\ [][ \A k \in Servers :
              ClosingStep(k) /\ ~crashed' =>
                  \A j \in Servers \ { k } : Running(j) => Undisturbed(j) ]_vars

\* The first Server is closed for good, the second still watches, and
\* each sink has had an event.
ClosedOneOfTwo ==
    /\ serverMem[1] = "freed"
    /\ threadPc[2] = "loop"
    /\ \E w \in WatchPointIds : Watching(w, Root(2))
    /\ sink[1] # <<>>
    /\ sink[2] # <<>>

(***************************************************************************)
(* The JNI entry point with an empty array of paths.                       *)
(***************************************************************************)
NoPaths == <<>>

\* startWatching of the JNI layer up to new Server: what it reports for
\* an array of paths, "" when it goes on to create the Server.
markFailed(paths) ==
    IF Len(paths) = 0 THEN "No paths given to watch." ELSE ""

\* startWatching of the JNI layer called with no paths: the call is
\* marked failed and returns NULL before a Server is created.
StartWatcherWithoutPaths ==
    /\ ~crashed
    /\ callerPc = "init"
    /\ markFailed(NoPaths) # ""
    /\ callResult' = markFailed(NoPaths)
    /\ UNCHANGED << callerPc, callerWp, closeCalls, serverMem, sinkKind, sinkRef,
                    threadPc, threadJoined, current, terminate, watchPoints, wp,
                    apcQueue, sink, pendingException, crashed, nChanges, unwatched >>

NextJni ==
    \/ Next
    \/ StartWatcherWithoutPaths

SpecJni == Init /\ [][NextJni]_vars

FairSpecJni == SpecJni /\ WF_vars(RunLoop) /\ WF_vars(CloseJoin)

\* C19: a watcher can be started and closed without watching any path.
\* Starting a watcher with no paths succeeds, it creates a running Server
\* and reports no failure, and the close of a Server that never had a
\* WatchPoint returns.
EmptyWatcherStartsAndCloses ==
    /\ [][ StartWatcherWithoutPaths => serverMem' = "alive" /\ callResult' = "ok" ]_vars
    /\ (callerPc = "joining" /\ FreeIds = WatchPointIds) ~> CloseReturned

\* The second half alone: the close of a Server that never had a
\* WatchPoint returns.
EmptyWatcherCloses ==
    (callerPc = "joining" /\ FreeIds = WatchPointIds) ~> CloseReturned

\* A Server that never had a WatchPoint has been closed.
EmptyWatcherClosed ==
    CloseReturned /\ FreeIds = WatchPointIds

(***************************************************************************)
(* The vocabulary of event types.                                          *)
(***************************************************************************)
\* enum class ChangeType of the engine's header.
ChangeType == { "CREATED", "REMOVED", "MODIFIED", "INVALIDATED" }

\* The closed set of the specification.
ClosedSetOfTypes == { "CREATED", "REMOVED", "MODIFIED", "INVALIDATED", "UNKNOWN", "OVERFLOW" }

\* The name of the specification for a type code of the WatchPoint.
TypeName(type) ==
    CASE type = "FILE_EVENT_CREATED" -> "CREATED"
      [] type = "FILE_EVENT_REMOVED" -> "REMOVED"
      [] type = "FILE_EVENT_MODIFIED" -> "MODIFIED"
      [] type = "FILE_EVENT_INVALIDATE" -> "INVALIDATED"
      [] type = "FILE_EVENT_UNKNOWN" -> "UNKNOWN"
      [] OTHER -> type

CreatedFlags == { "ITEM_CREATED", "ITEM_RENAMED" }

ModifiedFlags ==
    { "ITEM_MODIFIED", "ITEM_INODE_META_MOD", "ITEM_FINDER_INFO_MOD", "ITEM_CHANGE_OWNER",
      "ITEM_XATTR_MOD" }

MacFlags ==
    { "ROOT_CHANGED", "MUST_SCAN_SUB_DIRS", "ITEM_REMOVED" } \cup CreatedFlags \cup ModifiedFlags

MacEntry(flags) == [ path |-> DirA \o << Sep, "f" >>, flags |-> flags ]

\* A variant of normalize with a plausible slip: the first flag that
\* matches decides, and the entry gives one event.
normalizeFirstMatch(flags) ==
    IF "ROOT_CHANGED" \in flags THEN << "INVALIDATED" >>
    ELSE IF "MUST_SCAN_SUB_DIRS" \in flags THEN << "OVERFLOW" >>
    ELSE IF flags \cap CreatedFlags # {} THEN << "CREATED" >>
    ELSE IF "ITEM_REMOVED" \in flags THEN << "REMOVED" >>
    ELSE IF flags \cap ModifiedFlags # {} THEN << "MODIFIED" >>
    ELSE << >>

\* The normalized types of one entry, in the order of their dispatch.
normalize(flags) ==
    IF "ROOT_CHANGED" \in flags THEN << "INVALIDATED" >>
    ELSE IF "MUST_SCAN_SUB_DIRS" \in flags THEN << "OVERFLOW" >>
    ELSE (IF flags \cap CreatedFlags # {} THEN << "CREATED" >> ELSE << >>)
      \o (IF flags \cap ModifiedFlags # {} THEN << "MODIFIED" >> ELSE << >>)
      \o (IF "ITEM_REMOVED" \in flags THEN << "REMOVED" >> ELSE << >>)

\* The run loop has a batch of one entry at hand, with any set of flags.
InitMac ==
    /\ callerPc = "idle"
    /\ callerWp = 0
    /\ callResult = "ok"
    /\ closeCalls = 0
    /\ serverMem = "alive"
    /\ sinkKind = "recording"
    /\ sinkRef = TRUE
    /\ threadPc = "callback"
    /\ threadJoined = FALSE
    /\ current \in { MacEntry(flags) : flags \in SUBSET MacFlags }
    /\ terminate = FALSE
    /\ watchPoints = << 1 >>
    /\ wp = [ w \in WatchPointIds |-> IF w = 1 THEN NewWatchPoint(DirA) ELSE NoWatchPoint ]
    /\ apcQueue = <<>>
    /\ sink = <<>>
    /\ pendingException = FALSE
    /\ crashed = FALSE
    /\ nChanges = 0
    /\ unwatched = {}

\* The callback of the subscription dispatches the events of the entry.
MacHandleEvent ==
    /\ threadPc = "callback"
    /\ LET types == normalize(current.flags) IN
       sink' = sink \o [ i \in 1..Len(types) |->
                           [ call |-> "pathChanged", type |-> types[i], path |-> current.path,
                             info |-> current ] ]
    /\ threadPc' = "loop"
    /\ UNCHANGED << callerPc, callerWp, callResult, closeCalls, serverMem, sinkKind, sinkRef,
                    threadJoined, current, terminate, watchPoints, wp, apcQueue,
                    pendingException, crashed, nChanges, unwatched >>

NextMac == MacHandleEvent

SpecMac == InitMac /\ [][NextMac]_vars

\* The place of a type in the order CREATED, MODIFIED, REMOVED.
Rank(type) ==
    CASE type = "CREATED" -> 1
      [] type = "MODIFIED" -> 2
      [] type = "REMOVED" -> 3
      [] OTHER -> 0

RunLoopExitCondition ==
    /\ [](threadPc = "loop" => (ENABLED RunExit <=> terminate /\ Len(watchPoints) = 0))
    /\ [][ threadPc = "loop" /\ threadPc' = "exited" => terminate /\ Len(watchPoints) = 0 ]_vars
    /\ [][ threadPc = "loop" /\ (~terminate \/ Len(watchPoints) > 0) /\ ~crashed' =>
              threadPc' \in { "loop", "handler" } ]_vars

\* Termination has been requested, one WatchPoint has finished, and the
\* thread waits again for the completion of the one still in the list.
WaitsAgainWhileTerminating ==
    /\ threadPc = "loop"
    /\ terminate
    /\ Len(watchPoints) = 1
    /\ \E w \in WatchPointIds : wp[w].status = "WATCH_FINISHED"

\* Completion routines still queued for the run-loop thread.
QueuedCompletions == SelectSeq(apcQueue, LAMBDA apc : apc.kind = "completion")

\* C23: the two-phase exit drains the completions.  In every step in
\* which the run-loop thread leaves the loop, no WatchPoint has a read
\* outstanding in the kernel and no completion routine is queued for the
\* thread: every read cancelled by the termination has been handled.
ExitDrainsCompletions ==
    [][ threadPc = "loop" /\ threadPc' = "exited" =>
           /\ \A w \in WatchPointIds : wp[w].pending = 0
           /\ QueuedCompletions = <<>> ]_vars

(***************************************************************************)
(* The termination request.                                                *)
(***************************************************************************)
InList(w, list) == \E i \in 1..Len(list) : list[i] = w

AbortedFor(w, queue) ==
    Len(SelectSeq(queue, LAMBDA apc : apc.kind = "completion" /\ apc.wp = w
                                        /\ apc.errorCode = ERROR_OPERATION_ABORTED))

\* C24: the termination request runs on the run-loop thread, sets the
\* terminate flag and calls close exactly once on every WatchPoint that
\* is in the list: its pending read is cancelled (one aborted completion
\* is queued for it) and its handle is closed.  The list itself is left
\* as it was, and a WatchPoint that is not in the list is not touched.
TerminationClosesAll ==
    [][ RunRequestTerminationCallback =>
           /\ threadPc = "loop" /\ threadPc' = "loop"
           /\ terminate'
           /\ watchPoints' = watchPoints
           /\ \A w \in WatchPointIds :
                 IF InList(w, watchPoints)
                 THEN /\ wp'[w].closes = wp[w].closes + 1
                      /\ ~wp'[w].handleOpen
                      /\ wp'[w].pending = 0
                      /\ AbortedFor(w, apcQueue') = AbortedFor(w, apcQueue) + wp[w].pending
                 ELSE wp'[w] = wp[w] ]_vars

\* The termination request has closed two WatchPoints, one with a
\* read pending, and both are still in the list.
TerminationClosedTwo ==
    /\ terminate
    /\ threadPc = "loop"
    /\ Len(watchPoints) = 2
    /\ \A w \in WatchPointIds : wp[w].closes = 1 /\ ~wp[w].handleOpen
    /\ \E w \in WatchPointIds : AbortedFor(w, apcQueue) = 1

(***************************************************************************)
(* Aborted completions: termination has closed two WatchPoints, and the    *)
(* completions of their cancelled reads are queued.  The first comes with  *)
(* any buffer content, so with any byte count.                             *)
(***************************************************************************)
ClosedWatchPoint(path) ==
    [ NewWatchPoint(path) EXCEPT !.status = "WATCH_LISTENING", !.handleOpen = FALSE,
                                 !.closes = 1 ]

InitAborted ==
    /\ callerPc = "joining"
    /\ callerWp = 0
    /\ callResult = "ok"
    /\ closeCalls = 1
    /\ serverMem = "alive"
    /\ sinkKind \in SinkKinds
    /\ sinkRef = TRUE
    /\ threadPc = "loop"
    /\ threadJoined = FALSE
    /\ current = NoApc
    /\ terminate = TRUE
    /\ watchPoints = << 1, 2 >>
    /\ wp = [ w \in WatchPointIds |->
                IF w = 1 THEN ClosedWatchPoint(DirA)
                ELSE IF w = 2 THEN ClosedWatchPoint(DirB)
                ELSE NoWatchPoint ]
    /\ \E buffer \in Buffers(MaxRecords) :
          /\ apcQueue = << Completion(1, ERROR_OPERATION_ABORTED, Chain(buffer)),
                           Completion(2, ERROR_OPERATION_ABORTED, <<>>) >>
          /\ nChanges = Len(buffer)
    /\ sink = <<>>
    /\ pendingException = FALSE
    /\ crashed = FALSE
    /\ unwatched = {}

NextAborted ==
    \/ RunHandleEventCallback
    \/ RunHandleEvent
    \/ RunExit
    \/ CloseJoin

SpecAborted == InitAborted /\ [][NextAborted]_vars

\* The handler of an aborted completion runs to its end.
AbortedStep ==
    /\ threadPc = "handler"
    /\ current.errorCode = ERROR_OPERATION_ABORTED
    /\ threadPc' = "loop"

\* C25: a completion with status OPERATION_ABORTED, whatever its byte
\* count, moves the WatchPoint to FINISHED, takes it off the list of the
\* Server and leaves the rest of the list as it was, dispatches no event
\* to the sink, and schedules no read.
AbortedFinishes ==
    [][ AbortedStep =>
           /\ wp'[current.wp].status = "WATCH_FINISHED"
           /\ watchPoints' = SelectSeq(watchPoints, LAMBDA x : x # current.wp)
           /\ sink' = sink
           /\ pendingException' = pendingException
           /\ Reads(current.wp, wp', apcQueue') = Outstanding(current.wp) ]_vars

\* An aborted completion that came with a buffer of records has been
\* handled: its WatchPoint is off the list and the sink has seen nothing.
AbortedWithBytesFinished ==
    /\ nChanges > 0
    /\ threadPc = "loop"
    /\ wp[1].status = "WATCH_FINISHED"
    /\ watchPoints = << 2 >>
    /\ sink = <<>>

(***************************************************************************)
(* Outstanding reads.                                                      *)
(***************************************************************************)
\* The completion of a read of w is being handled.
Handling(w) == IF threadPc = "handler" /\ current.wp = w THEN 1 ELSE 0

\* C26: at most one asynchronous read is outstanding per WatchPoint.  In
\* every state a WatchPoint has at most one read that is pending in the
\* kernel, or completed and waiting for its handler, or being handled; a
\* read is scheduled only by startWatchCallback and by the handler of a
\* completion, and only when no read of the WatchPoint is pending.
OneReadPerWatchPoint ==
    /\ [](\A w \in WatchPointIds : Outstanding(w) + Handling(w) <= 1)
    /\ [][ \A w \in WatchPointIds :
              wp'[w].pending > wp[w].pending =>
                  /\ RunStartWatchCallback \/ RunHandleEvent
                  /\ wp[w].pending = 0
                  /\ wp'[w].pending = 1 ]_vars

\* The handler of a completion has scheduled the next read of its
\* WatchPoint while the read of another WatchPoint is pending.
RearmedBesideAnother ==
    /\ threadPc = "loop"
    /\ sink # <<>>
    /\ \A w \in WatchPointIds : wp[w].pending = 1

(***************************************************************************)
(* The registration handshake.                                             *)
(***************************************************************************)
PublishedStatuses == { "WATCH_LISTENING", "WATCH_FAILED_TO_LISTEN" }

\* C27: the registration handshake.  startWatching returns only on a
\* status that startWatchCallback has published, WATCH_LISTENING or
\* WATCH_FAILED_TO_LISTEN, never on WATCH_UNINITIALIZED; the WatchPoint
\* is put on the list exactly when that status is WATCH_LISTENING, and is
\* destroyed otherwise.
RegistrationHandshake ==
    [][ StartWatchingReturn =>
           /\ wp[callerWp].status \in PublishedStatuses
           /\ IF wp[callerWp].status = "WATCH_LISTENING"
              THEN /\ watchPoints' = Append(watchPoints, callerWp)
                   /\ wp'[callerWp].mem = "alive"
              ELSE /\ watchPoints' = watchPoints
                   /\ wp'[callerWp].mem = "freed" ]_vars

\* The same for the returns that follow a published status: the switch
\* of startWatching does what the handshake asks for.
RegistrationSwitch ==
    [][ StartWatchingReturn /\ wp[callerWp].status \in PublishedStatuses /\ wp[callerWp].mem = "alive" =>
           IF wp[callerWp].status = "WATCH_LISTENING"
           THEN /\ watchPoints' = Append(watchPoints, callerWp)
                /\ wp'[callerWp].mem = "alive"
           ELSE /\ watchPoints' = watchPoints
                /\ wp'[callerWp].mem = "freed" ]_vars

\* startWatching has returned while its request was still queued, and
\* has destroyed the WatchPoint the request points to.
ReturnedBeforePublished ==
    /\ callerPc = "idle"
    /\ \E i \in 1..Len(apcQueue) :
          apcQueue[i].kind = "startWatch" /\ wp[apcQueue[i].wp].mem = "freed"

\* C28: a WatchPoint whose first read was scheduled is put on the list
\* and is not destroyed by startWatching.  When startWatching returns
\* for a WatchPoint that has a read pending, completed or being handled,
\* the WatchPoint is on the list afterwards and is alive, also when the
\* handler of a completion runs between the handshake and the caller's
\* read of the status.
ListeningWatchPointKept ==
    [][ StartWatchingReturn /\ wp[callerWp].mem = "alive"
          /\ Outstanding(callerWp) + Handling(callerWp) >= 1 =>
           /\ InList(callerWp, watchPoints')
           /\ wp'[callerWp].mem = "alive" ]_vars

\* startWatching has destroyed a WatchPoint whose completion is being
\* handled.
DestroyedWhileHandled ==
    /\ callerPc = "idle"
    /\ threadPc = "handler"
    /\ wp[current.wp].mem = "freed"
    /\ ~InList(current.wp, watchPoints)

(***************************************************************************)
(* The threads that change the list of WatchPoints.                        *)
(***************************************************************************)
\* C29: the list of WatchPoints is changed only by the run-loop thread.
\* Every step of the running process that puts a WatchPoint on the list
\* or takes one off is a step of the run-loop thread.
ListChangedOnRunLoopThread ==
    [][ watchPoints' # watchPoints /\ ~crashed' => RunLoop ]_vars

\* The removals alone: every step that takes a WatchPoint off the list
\* is a step of the run-loop thread.
ListShrunkOnRunLoopThread ==
    [][ Len(watchPoints') < Len(watchPoints) /\ ~crashed' => RunLoop ]_vars

\* The caller thread has put a WatchPoint on the list while the run-loop
\* thread was in the handler of a completion of another WatchPoint.
InsertedByCallerDuringHandler ==
    /\ callerPc = "idle"
    /\ threadPc = "handler"
    /\ Len(watchPoints) = 2
    /\ current.wp = watchPoints[1]

(***************************************************************************)
(* The life of a WatchPoint.                                               *)
(***************************************************************************)
WatchPointStatuses ==
    { "WATCH_UNINITIALIZED", "WATCH_LISTENING", "WATCH_NOT_LISTENING", "WATCH_FAILED_TO_LISTEN",
      "WATCH_FINISHED" }

\* A WatchPoint comes into being only in startWatching, with status
\* WATCH_UNINITIALIZED, and its status is always one of the five.
CreatedUninitialized ==
    /\ [](\A w \in WatchPointIds : wp[w].status \in WatchPointStatuses)
    /\ [][ \A w \in WatchPointIds :
              wp[w].mem = "unborn" /\ wp'[w].mem # "unborn" =>
                  /\ \E path \in UserPaths : StartWatching(path)
                  /\ wp'[w].mem = "alive"
                  /\ wp'[w].status = "WATCH_UNINITIALIZED" ]_vars

\* WatchPoint w is deleted in this step of the living process.
Destroyed(w) == wp[w].mem = "alive" /\ wp'[w].mem = "freed" /\ ~crashed'

InitRearm ==
    /\ callerPc = "idle"
    /\ callerWp = 0
    /\ callResult = "ok"
    /\ closeCalls = 0
    /\ serverMem = "alive"
    /\ sinkKind \in SinkKinds
    /\ sinkRef = TRUE
    /\ threadPc = "loop"
    /\ threadJoined = FALSE
    /\ current = NoApc
    /\ terminate = FALSE
    /\ watchPoints = << 1, 2 >>
    /\ wp = [ w \in WatchPointIds |->
                IF w = 1
                THEN [ NewWatchPoint(MissingPath) EXCEPT !.status = "WATCH_LISTENING" ]
                ELSE IF w = 2
                THEN [ NewWatchPoint(DirA) EXCEPT !.status = "WATCH_LISTENING",
                                                  !.pending = 1 ]
                ELSE NoWatchPoint ]
    /\ \E buffer \in Buffers(MaxRecords) :
          apcQueue = << Completion(1, ERROR_SUCCESS, Chain(buffer)) >>
    /\ sink = <<>>
    /\ pendingException = FALSE
    /\ crashed = FALSE
    /\ nChanges = 0
    /\ unwatched = {}

NextRearm ==
    \/ RunHandleEventCallback
    \/ RunHandleEvent
    \/ \E dir \in Dirs : FsChange(dir)

SpecRearm == InitRearm /\ [][NextRearm]_vars

\* handleEvent runs to its end on a completion that is not aborted, and
\* the read of its WatchPoint could not be scheduled again.
RearmFailedStep ==
    /\ RunHandleEvent
    /\ current.errorCode # ERROR_OPERATION_ABORTED
    /\ wp'[current.wp].status = "WATCH_FAILED_TO_LISTEN"

\* C31: a failure of one WatchPoint does not stop the Server.  When the
\* read of a WatchPoint cannot be scheduled again after a completion,
\* that WatchPoint alone leaves the list and is destroyed, the terminate
\* flag stays unset, the run loop goes on waiting, and every other
\* WatchPoint is left as it was, its read outstanding; from then on the
\* others stay listed and listening with their read outstanding.
RearmFailureIsLocal ==
    /\ [][ RearmFailedStep =>
              /\ watchPoints' = RemoveAll(watchPoints, current.wp)
              /\ wp'[current.wp].mem = "freed"
              /\ terminate' = FALSE
              /\ threadPc' = "loop"
              /\ Len(watchPoints') > 0
              /\ \A v \in WatchPointIds \ {current.wp} :
                    /\ wp'[v] = wp[v]
                    /\ Reads(v, wp', apcQueue') = Outstanding(v) ]_vars
    /\ [](wp[1].mem = "freed" =>
              /\ ~terminate
              /\ threadPc \in {"loop", "handler"}
              /\ watchPoints = << 2 >>
              /\ wp[2].mem = "alive"
              /\ wp[2].handleOpen
              /\ Outstanding(2) + Handling(2) = 1)

\* After the first WatchPoint was removed for a failed re-arm, a change
\* under the root of the second one has been delivered and its read is
\* pending again.
OtherStillDelivers ==
    /\ wp[1].mem = "freed"
    /\ wp[1].status = "WATCH_FAILED_TO_LISTEN"
    /\ threadPc = "loop"
    /\ ~terminate
    /\ wp[2].pending = 1
    /\ sink # <<>>
    /\ sink[Len(sink)].wp = 2
    /\ \A i \in 1..Len(sink) : sink[i].wp = 1 => i < Len(sink)

(***************************************************************************)
(* The Server and its WatchPoints at the deletion of the Server.           *)
(***************************************************************************)
\* The Server object ceases to be in this step.
ServerDestroyed == serverMem = "alive" /\ serverMem' # "alive"

\* No WatchPoint is left that could follow its pointer to the Server.
NoWatchPointLeft ==
    /\ watchPoints = <<>>
    /\ \A w \in WatchPointIds : wp[w].mem # "alive"

JoinedServerOutlivesWatchPoints ==
    /\ [][ ServerDestroyed /\ ~crashed' =>
              /\ CloseJoin
              /\ serverMem' = "freed"
              /\ NoWatchPointLeft
              /\ threadPc = "exited"
              /\ threadJoined' ]_vars
    /\ [](serverMem = "freed" => threadPc = "exited" /\ NoWatchPointLeft)

SinkReleasedByClose == (Close \/ CloseJoin) /\ sinkRef /\ ~sinkRef'

\* Once the reference to the sink is released the sink is not called.
NoSinkCallAfterRelease ==
    /\ [][ ~sinkRef => sink' = sink ]_vars
    /\ [](~sinkRef => threadPc \notin {"loop", "handler"})

\* C33: no call of the sink after close has returned.  Every path
\* through close that releases the reference to the sink has joined the
\* run-loop thread before, and once the reference is released the
\* run-loop thread calls the sink no more.
NoSinkCallAfterClose ==
    /\ [][ SinkReleasedByClose => threadPc = "exited" /\ threadJoined' ]_vars
    /\ NoSinkCallAfterRelease

\* The same for the path of close that joins: the reference is released
\* after the join, and the sink is not called afterwards.
NoSinkCallAfterJoinedClose ==
    /\ [][ CloseJoin => sinkRef /\ ~sinkRef' /\ threadPc = "exited" /\ threadJoined' ]_vars
    /\ NoSinkCallAfterRelease

\* close has joined the thread and released the sink, which had been
\* called before.
SinkReleasedAfterEvents ==
    /\ callerPc = "idle"
    /\ closeCalls > 0
    /\ threadJoined
    /\ ~sinkRef
    /\ sink # <<>>

(***************************************************************************)
(* The end of the wait in awaitListeningStarted.                           *)
(***************************************************************************)
\* The caller has left listenerStarted.wait.
Released == callerPc \in {"woken", "idle"}

\* C34: startWatching always returns.  In every state of the Server,
\* also when the start-listening request could not be queued or the
\* run-loop thread performs no alertable wait any more, a caller that
\* waits in the registration handshake is eventually released.
StartWatchingReturns == (callerPc = "awaitListening") ~> Released

\* The same for a caller whose request was queued to a thread that is
\* in its loop: it is released, unless the process faults on a deleted
\* WatchPoint before.
StartWatchingReturnsWhenQueued ==
    (callerPc = "awaitListening" /\ threadPc \in {"attaching", "loop", "handler"})
        ~> (Released \/ crashed \/ threadPc = "exited")

\* The caller was released by the notification of a listen that failed.
ReleasedAfterFailedListen ==
    /\ callerPc = "woken"
    /\ threadPc = "loop"
    /\ wp[callerWp].mem = "alive"
    /\ wp[callerWp].status = "WATCH_FAILED_TO_LISTEN"

(***************************************************************************)
(* The directory handle of a WatchPoint.                                   *)
(***************************************************************************)
\* C35: every directory handle that startWatching opened is closed
\* exactly once before its WatchPoint is destroyed, on every path: at
\* the deletion of a WatchPoint, by the run-loop thread or by
\* startWatching, WatchPoint::close has run once on it and its handle is
\* closed; and close never runs twice on a WatchPoint.
HandleClosedOnce ==
    /\ [][ \A w \in WatchPointIds :
              Destroyed(w) => wp[w].closes = 1 /\ ~wp[w].handleOpen ]_vars
    /\ [](\A w \in WatchPointIds : wp[w].closes <= 1)

\* The same for the WatchPoints that a termination ends: a WatchPoint
\* deleted in status WATCH_FINISHED had its handle closed exactly once.
HandleClosedOnceByTermination ==
    /\ [][ \A w \in WatchPointIds :
              Destroyed(w) /\ wp'[w].status = "WATCH_FINISHED" =>
                  wp[w].closes = 1 /\ ~wp[w].handleOpen ]_vars
    /\ [](\A w \in WatchPointIds : wp[w].closes <= 1)

\* A WatchPoint whose first read could not be scheduled was deleted
\* with its handle open.
DeletedWithOpenHandle ==
    \E w \in WatchPointIds :
        /\ wp[w].mem = "freed"
        /\ wp[w].status = "WATCH_FAILED_TO_LISTEN"
        /\ wp[w].handleOpen
        /\ wp[w].closes = 0

(***************************************************************************)
(* The walk over the buffer of a completion.  The buffer of a WatchPoint   *)
(* is allocated once and written by every read, so behind the records of   *)
(* a completion it may still hold a record of an earlier, longer one.      *)
(***************************************************************************)
Stale == { <<>>, Chain(<< Info(FILE_ACTION_REMOVED, <<"f">>, FALSE) >>) }

InitWalk ==
    /\ callerPc = "idle"
    /\ callerWp = 0
    /\ callResult = "ok"
    /\ closeCalls = 0
    /\ serverMem = "alive"
    /\ sinkKind \in SinkKinds
    /\ sinkRef = TRUE
    /\ threadPc = "loop"
    /\ threadJoined = FALSE
    /\ current = NoApc
    /\ terminate = FALSE
    /\ watchPoints = << 1 >>
    /\ \E kbuf \in Waiting :
          wp = [ w \in WatchPointIds |->
                   IF w = 1
                   THEN [ NewWatchPoint(DirA) EXCEPT !.status = "WATCH_LISTENING",
                                                     !.kbuf = kbuf ]
                   ELSE NoWatchPoint ]
    /\ \E buffer \in Buffers(MaxRecords), stale \in Stale :
          apcQueue = << [ Completion(1, ERROR_SUCCESS, Chain(buffer))
                            EXCEPT !.buffer = @ \o stale ] >>
    /\ sink = <<>>
    /\ pendingException = FALSE
    /\ crashed = FALSE
    /\ nChanges = MaxChanges
    /\ unwatched = {}

NextWalk ==
    \/ RunHandleEventCallback
    \/ RunHandleEvent

SpecWalk == InitWalk /\ [][NextWalk]_vars

\* The first record of the buffer whose NextEntryOffset is zero.
LastRecord(buffer) ==
    CHOOSE k \in 1..Len(buffer) :
        /\ buffer[k].NextEntryOffset = 0
        /\ \A j \in 1..(k - 1) : buffer[j].NextEntryOffset # 0

\* C36: one event per record, then re-arm.  The handler of a completion
\* that is not aborted and brings bytes calls the sink exactly once for
\* each record from the first to the first one whose NextEntryOffset is
\* zero, in that order and for no record behind it, each call carrying
\* that record of the completed buffer; and it schedules exactly one
\* read of the WatchPoint, which is outstanding at the end of the handler
\* and none of whose records has been dispatched.
OneEventPerRecordThenRearm ==
    [][ RecordsStep =>
          LET n == LastRecord(current.buffer) IN
          /\ Len(sink') = Len(sink) + n
          /\ SubSeq(sink', 1, Len(sink)) = sink
          /\ \A k \in 1..n :
                /\ sink'[Len(sink) + k].call = "pathChanged"
                /\ sink'[Len(sink) + k].wp = current.wp
                /\ sink'[Len(sink) + k].info = current.buffer[k]
          /\ Outstanding(current.wp) = 0
          /\ Reads(current.wp, wp', apcQueue') = 1
          /\ wp'[current.wp].status = "WATCH_LISTENING" ]_vars

\* The two records of one buffer were dispatched, and the read that was
\* scheduled after them completed at once; it waits for its handler.
WalkedToOffsetZero ==
    /\ threadPc = "loop"
    /\ Len(sink) = 2
    /\ sink[1].info.NextEntryOffset # 0
    /\ sink[2].info.NextEntryOffset = 0
    /\ Len(apcQueue) = 1
    /\ apcQueue[1].kind = "completion"
    /\ wp[1].kbuf = <<>>

(***************************************************************************)
(* A registration that fails.                                              *)
(***************************************************************************)
\* Server::startWatching returns at once: CreateFileW gave no handle.
FailedOpenStep ==
    \E path \in UserPaths : PathKind(path) = "missing" /\ StartWatching(path)

\* Server::startWatching returns through the default branch of its
\* switch: the WatchPoint is not listening.
FailedListenReturn ==
    StartWatchingReturn /\ wp[callerWp].status # "WATCH_LISTENING"

\* The caller can go on to register the next path.
CallerGoesOn == ~crashed' /\ callerPc' = "idle" /\ serverMem' = "alive"

\* C37: a failed registration leaves the Server unchanged.  When
\* startWatching cannot open the directory nothing of the Server
\* changes; when the WatchPoint does not start listening, the list of
\* WatchPoints, the terminate flag and every other WatchPoint are the
\* same after each step of the call (the creation of the WatchPoint, its
\* listen on the run-loop thread, the return that deletes it), and the
\* WatchPoint itself is gone; in both cases the caller is back in a
\* living Server and can register the remaining paths.
FailedRegistrationIsLocal ==
    /\ [][ FailedOpenStep =>
              /\ watchPoints' = watchPoints
              /\ terminate' = terminate
              /\ wp' = wp
              /\ apcQueue' = apcQueue
              /\ CallerGoesOn ]_vars
    /\ [][ (\E path \in UserPaths : StartWatching(path)) =>
              /\ watchPoints' = watchPoints
              /\ terminate' = terminate
              /\ \A v \in WatchPointIds : wp[v].mem # "unborn" => wp'[v] = wp[v] ]_vars
    /\ [][ RunStartWatchCallback =>
              /\ watchPoints' = watchPoints
              /\ terminate' = terminate
              /\ \A v \in WatchPointIds \ {NextApc.wp} : wp'[v] = wp[v] ]_vars
    /\ [][ FailedListenReturn =>
              /\ watchPoints' = watchPoints
              /\ terminate' = terminate
              /\ \A v \in WatchPointIds \ {callerWp} : wp'[v] = wp[v]
              /\ wp'[callerWp].mem = "freed"
              /\ \A i \in 1..Len(watchPoints') : watchPoints'[i] # callerWp
              /\ sink' = sink
              /\ CallerGoesOn ]_vars

\* After the registration of a file had failed, the next path was
\* registered and is listening.
RegisteredAfterFailure ==
    /\ callerPc = "idle"
    /\ ~terminate
    /\ wp[1].mem = "freed"
    /\ PathKind(wp[1].path) = "file"
    /\ wp[1].status = "WATCH_FAILED_TO_LISTEN"
    /\ watchPoints = << 2 >>
    /\ wp[2].status = "WATCH_LISTENING"
    /\ wp[2].pending = 1

====
